---- MODULE Spec2Model ----
(***************************************************************************)
(* RF433 bridge firmware (avr/rf_bridge_common.c): the pulse sampler and   *)
(* transmit driver interrupt handlers, the main dispatch loop, the sync    *)
(* searcher, the four decoders and the serial command parser, as one state *)
(* machine.  Task code is cut into steps at its accesses to the state it   *)
(* shares with the interrupt handlers; a handler runs to completion and    *)
(* may fire between any two task steps while its TIMSK0 bit is set.        *)
(***************************************************************************)
EXTENDS Integers, Sequences, FiniteSets, TLC

(***************************************************************************)
(* 8-bit arithmetic                                                        *)
(***************************************************************************)
Byte(x) == x % 256

\* C integer division truncates toward zero
CDiv(a, b) == IF a >= 0 THEN a \div b ELSE -((-a) \div b)

MAX_TICKS_PER_PHASE == 255

SYNC_LEN == 8

\* uint8_t abs_sub(uint8_t v1, uint8_t v2)
abs_sub(a, b) ==
    LET v1 == Byte(a)
        v2 == Byte(b)
    IN  IF v1 > v2 THEN v1 - v2 ELSE v2 - v1

\* uint8_t ovf_sub(uint8_t v1, uint8_t v2)
ovf_sub(a, b) ==
    LET v1 == Byte(a)
        v2 == Byte(b)
    IN  IF v1 > v2 THEN Byte(255 - v1 + v2) ELSE v2 - v1

(***************************************************************************)
(* Characters of the serial link, as their ASCII codes                     *)
(***************************************************************************)
Printable == << " ", "!", "dquote", "#", "$", "%", "&", "quote", "(", ")", "*", "+", ",", "-", ".", "/", "0", "1", "2", "3", "4", "5", "6", "7", "8", "9", ":", ";", "<", "=", ">", "?", "@", "A", "B", "C", "D", "E", "F", "G", "H", "I", "J", "K", "L", "M", "N", "O", "P", "Q", "R", "S", "T", "U", "V", "W", "X", "Y", "Z", "[", "backslash", "]", "^", "_", "backquote", "a", "b", "c", "d", "e", "f", "g", "h", "i", "j", "k", "l", "m", "n", "o", "p", "q", "r", "s", "t", "u", "v", "w", "x", "y", "z", "{", "|", "}", "~" >>

Ord(c) == IF c = "\n" THEN 10 ELSE 31 + CHOOSE i \in 1..Len(Printable) : Printable[i] = c

\* a C string literal, one character per element
Str(cs) == [i \in 1..Len(cs) |-> Ord(cs[i])]

NL == Ord("\n")

TIMEOUT_CHAR == 255

HexDigits == Str(<< "0", "1", "2", "3", "4", "5", "6", "7", "8", "9", "a", "b", "c", "d", "e", "f" >>)

\* printf("%02x", v)
Fmt02x(v) == << HexDigits[(v \div 16) + 1], HexDigits[(v % 16) + 1] >>

\* printf("%0x", v): the 0 flag without a width pads nothing
Fmt0x(v) == IF v < 16 THEN << HexDigits[v + 1] >> ELSE Fmt02x(v)

\* printf("%d", v) of an 8-bit value
FmtD(v) ==
    LET d(k) == HexDigits[k + 1]
    IN  IF v < 10 THEN << d(v) >>
        ELSE IF v < 100 THEN << d(v \div 10), d(v % 10) >>
        ELSE << d(v \div 100), d((v \div 10) % 10), d(v % 10) >>

\* the value getsbyte gives a character, or -1 when it takes it for no hex digit
HexValue(s) ==
    IF s >= Ord("0") /\ s <= Ord("9") THEN s - Ord("0")
    ELSE IF s >= Ord("a") /\ s <= Ord("f") THEN s - Ord("a") + 10
    ELSE IF s >= Ord("A") /\ s < Ord("F") THEN s - Ord("A") + 10
    ELSE -1

(***************************************************************************)
(* State                                                                   *)
(***************************************************************************)
VARIABLES
    running_state,      \* which task the main loop dispatches
    transceiver_mode,   \* Idle, Receiving, StartTransmit, Transmitting
    TIMSK0,             \* the timer compare interrupts that are enabled
    pins,               \* output pins: Antenna, Transmitter
    mode_log,           \* history: the values transceiver_mode took since the command began
    pulse,              \* pulse[i] = <<low ticks, high ticks>>, i in 0..255
    current_pulse,      \* the filling cursor
    msg_start, msg_end, \* markers for the decoders and the transmit driver
    tickcount,
    isr,                \* the handlers' static variables: rx_bit, tx_bit, tp
    syncduration, chk, byte, bcount, decoded,
    flags,              \* display_pulses, display_stacks
    uart_rx,            \* serial bytes received and not yet read
    out,                \* serial bytes sent
    run,                \* whose code the CPU runs: main or a task
    mpc,                \* position of rf_bridge_run
    xc,                 \* the transceiver switch function being executed, if one
    ss,                 \* cr_syncsearch: position and locals
    dec,                \* the active decoder task: position and locals
    cmd,                \* cr_receive_cmd: position and locals
    wave,               \* receiver pin: the phases still to come, <<level, ticks>>
    host,               \* host: the chunks of serial input still to be sent, each with
                        \* the number of phases the wave has left when it is sent
    echo,               \* host: how much of 'out' it has read for echoing
    waited,             \* history: 0, or how long a command that arrived during a decode
                        \* has been waiting: 1 arrived, 2 a dispatch has begun since,
                        \* 3 that pass of the dispatch loop has ended
    irqs,               \* timer interrupts taken since the dispatch loop last slept
    calc,               \* a function applied on its own: its name, arguments and value
    sent                \* history: what the transmit driver has put on the transmitter pin in
                        \* the replay under way or last ended: the slot, the level, the ticks

hwvars == << transceiver_mode, TIMSK0, pins, mode_log >>

ringvars == << pulse, current_pulse, msg_start, msg_end, tickcount, isr >>

decvars == << syncduration, chk, byte, bcount, decoded, flags >>

iovars == << uart_rx, out >>

schedvars == << run, mpc, xc >>

taskvars == << ss, dec, cmd >>

envvars == << wave, host, echo, waited, irqs, calc, sent >>

vars == << running_state, hwvars, ringvars, decvars, iovars, schedvars, taskvars, envvars >>

DecoderStates == { "Decoding_ASK", "Decoding_OOK", "Decoding_Manchester", "DecodeRawPulses" }

timer_mask == { "OCIE0A", "OCIE0B" }

\* a store to transceiver_mode, as the history sees it
Logged(m) == IF m = transceiver_mode THEN mode_log ELSE Append(mode_log, m)

(***************************************************************************)
(* Scheduling: cr_yield gives the CPU back to rf_bridge_run, which goes on *)
(* to its stack report and then sleeps; an interrupt ends the sleep.       *)
(***************************************************************************)
NoCall == [fn |-> "none", step |-> 0, ret |-> "none"]

Call(fn, ret) == [fn |-> fn, step |-> 0, ret |-> ret]

\* the dispatch loop is in sleep_cpu()
Asleep == run = "main" /\ mpc = "sleep" /\ xc.fn = "none"

\* sleep_cpu() returns after an interrupt handler has run
Wake == mpc' = IF Asleep THEN "switch" ELSE mpc

\* A timer interrupt ends the sleep, or preempts the code that runs: the
\* handlers may run between any two steps of the tasks, up to MaxPreempt
\* times in one pass of the dispatch loop.
MaxPreempt == 2

TimerIrq ==
    /\ Asleep \/ irqs < MaxPreempt
    /\ irqs' = IF Asleep THEN 0 ELSE irqs + 1
    /\ Wake

\* cr_yield(): back into rf_bridge_run, behind its cr_resume
Yield == run' = "main" /\ mpc' = "stack" /\ xc' = xc

(***************************************************************************)
(* disable_transceiver, enable_receiver, enable_transmitter: one step per  *)
(* statement, run by whoever called (rf_bridge_run or cr_receive_cmd)      *)
(***************************************************************************)
\* a disable_transceiver that leaves the interrupt enables as they are
KeepTimerMask(t) == t

\* TIMSK0 &= ~timer_mask
ClearTimerMask(t) == t \ timer_mask

\* TIMSK0 |= (1 << OCIE0A)
SetOCIE0A(t) == t \cup { "OCIE0A" }

\* TIMSK0 |= (1 << OCIE0B)
SetOCIE0B(t) == t \cup { "OCIE0B" }

XcvrReturn ==
    /\ xc' = NoCall
    /\ IF run = "main"
       THEN mpc' = xc.ret /\ cmd' = cmd
       ELSE mpc' = mpc /\ cmd' = [cmd EXCEPT !.pc = xc.ret]

XcvrGoOn ==
    /\ xc' = [xc EXCEPT !.step = @ + 1]
    /\ UNCHANGED << mpc, cmd >>

XcvrFrame == << running_state, ringvars, decvars, iovars, run, ss, dec, envvars >>

disable_transceiver ==
    /\ xc.fn = "disable_transceiver"
    /\ CASE xc.step = 0 ->
              /\ transceiver_mode' = "Idle"
              /\ mode_log' = Logged("Idle")
              /\ XcvrGoOn
              /\ UNCHANGED << TIMSK0, pins >>
         [] xc.step = 1 ->
              /\ pins' = [pins EXCEPT !.Antenna = 0]
              /\ XcvrGoOn
              /\ UNCHANGED << transceiver_mode, mode_log, TIMSK0 >>
         [] OTHER ->
              /\ TIMSK0' = ClearTimerMask(TIMSK0)
              /\ XcvrReturn
              /\ UNCHANGED << transceiver_mode, mode_log, pins >>
    /\ UNCHANGED XcvrFrame

enable_receiver ==
    /\ xc.fn = "enable_receiver"
    /\ CASE xc.step = 0 ->
              /\ IF TIMSK0 \cap timer_mask = { "OCIE0A" } THEN XcvrReturn ELSE XcvrGoOn
              /\ UNCHANGED << transceiver_mode, mode_log, TIMSK0, pins >>
         [] xc.step = 1 ->
              /\ TIMSK0' = ClearTimerMask(TIMSK0)
              /\ XcvrGoOn
              /\ UNCHANGED << transceiver_mode, mode_log, pins >>
         [] xc.step = 2 ->
              /\ pins' = [pins EXCEPT !.Antenna = 0]
              /\ XcvrGoOn
              /\ UNCHANGED << transceiver_mode, mode_log, TIMSK0 >>
         [] xc.step = 3 ->
              /\ transceiver_mode' = "Receiving"
              /\ mode_log' = Logged("Receiving")
              /\ XcvrGoOn
              /\ UNCHANGED << TIMSK0, pins >>
         [] OTHER ->
              /\ TIMSK0' = SetOCIE0A(TIMSK0)
              /\ XcvrReturn
              /\ UNCHANGED << transceiver_mode, mode_log, pins >>
    /\ UNCHANGED XcvrFrame

enable_transmitter ==
    /\ xc.fn = "enable_transmitter"
    /\ CASE xc.step = 0 ->
              /\ IF TIMSK0 \cap timer_mask = { "OCIE0B" } THEN XcvrReturn ELSE XcvrGoOn
              /\ UNCHANGED << transceiver_mode, mode_log, TIMSK0, pins >>
         [] xc.step = 1 ->
              /\ TIMSK0' = ClearTimerMask(TIMSK0)
              /\ XcvrGoOn
              /\ UNCHANGED << transceiver_mode, mode_log, pins >>
         [] xc.step = 2 ->
              /\ pins' = [pins EXCEPT !.Antenna = 1]
              /\ XcvrGoOn
              /\ UNCHANGED << transceiver_mode, mode_log, TIMSK0 >>
         [] xc.step = 3 ->
              /\ transceiver_mode' = "StartTransmit"
              /\ mode_log' = Logged("StartTransmit")
              /\ XcvrGoOn
              /\ UNCHANGED << TIMSK0, pins >>
         [] OTHER ->
              /\ TIMSK0' = SetOCIE0B(TIMSK0)
              /\ XcvrReturn
              /\ UNCHANGED << transceiver_mode, mode_log, pins >>
    /\ UNCHANGED XcvrFrame

(***************************************************************************)
(* ISR(TIMER0_COMPA_vect): the pulse sampler.  s holds what it touches:    *)
(* pulse, cur (current_pulse), bit (its static), tick (tickcount).         *)
(***************************************************************************)
\* if (pulse[current_pulse][b] < MAX_TICKS_PER_PHASE) pulse[current_pulse][b]++
CountTick(p, b) == IF p[b + 1] < MAX_TICKS_PER_PHASE THEN [p EXCEPT ![b + 1] = @ + 1] ELSE p

\* a filter that looks at the low phase only
NotTinyLowOnly(p) == p[1] > 20

\* if tiny pulse, just ignore it
NotTiny(p) == p[1] > 20 \/ p[2] > 20

SamplerTick(s, b) ==
    LET counted == [s.pulse EXCEPT ![s.cur] = CountTick(@, b)]
        rising == s.bit = 0 /\ b = 1
        cur == IF rising /\ NotTiny(counted[s.cur]) THEN Byte(s.cur + 1) ELSE s.cur
    IN  [ pulse |-> IF rising THEN [counted EXCEPT ![cur] = << 0, 0 >>] ELSE counted,
          cur |-> cur,
          bit |-> b,
          tick |-> Byte(s.tick + 1) ]

\* a sampler whose counters wrap at 256 instead of staying at the maximum
SamplerRunWraps(s, b, n) ==
    IF n = 0 THEN s
    ELSE LET s1 == SamplerTick(s, b)
             more == s1.pulse[s1.cur][b + 1] + (n - 1)
         IN  [s1 EXCEPT !.pulse[s1.cur][b + 1] = Byte(more),
                        !.tick = Byte(s1.tick + (n - 1))]

\* the handler run on n consecutive ticks with the receiver pin at level b:
\* only the first tick can see an edge, the others count and saturate
SamplerRun(s, b, n) ==
    IF n = 0 THEN s
    ELSE LET s1 == SamplerTick(s, b)
             more == s1.pulse[s1.cur][b + 1] + (n - 1)
         IN  [s1 EXCEPT !.pulse[s1.cur][b + 1] = IF more < MAX_TICKS_PER_PHASE THEN more ELSE MAX_TICKS_PER_PHASE,
                        !.tick = Byte(s1.tick + (n - 1))]

\* a silent receiver: the pin stays low, taken a full turn of tickcount at a time
IdleTicks == MAX_TICKS_PER_PHASE + 1

\* the host sends its next chunk at this point of the wave
HostDue == host # << >> /\ Len(wave) <= Head(host).at

\* the wave is over, or stands still until the host has sent
PinSilent == wave = << >> \/ HostDue

\* the phase the receiver pin is in: the next of the wave, or silence
PinPhase == IF PinSilent THEN << 0, IdleTicks >> ELSE Head(wave)

Sampled(b, n) ==
    LET s == SamplerRun([pulse |-> pulse, cur |-> current_pulse, bit |-> isr.rx_bit, tick |-> tickcount], b, n)
    IN  /\ pulse' = s.pulse
        /\ current_pulse' = s.cur
        /\ isr' = [isr EXCEPT !.rx_bit = s.bit]
        /\ tickcount' = s.tick

\* the sampler over one whole phase of the receiver pin
TIMER0_COMPA ==
    /\ "OCIE0A" \in TIMSK0
    /\ Sampled(PinPhase[1], PinPhase[2])
    /\ wave' = IF PinSilent THEN wave ELSE Tail(wave)
    /\ TimerIrq
    /\ UNCHANGED << running_state, hwvars, msg_start, msg_end, decvars, iovars, run, xc, taskvars, host, echo, calc, sent, waited >>

\* the sampler on a single tick, while a command is received: uart_recv is
\* the only code that reads tickcount
TIMER0_COMPA_tick ==
    /\ "OCIE0A" \in TIMSK0
    /\ running_state = "ReceivingCommand"
    /\ Sampled(PinPhase[1], 1)
    /\ wave' = IF PinSilent THEN wave
               ELSE IF Head(wave)[2] > 1 THEN << << Head(wave)[1], Head(wave)[2] - 1 >> >> \o Tail(wave)
               ELSE Tail(wave)
    /\ TimerIrq
    /\ UNCHANGED << running_state, hwvars, msg_start, msg_end, decvars, iovars, run, xc, taskvars, host, echo, calc, sent, waited >>

(***************************************************************************)
(* ISR(TIMER0_COMPB_vect): the transmit driver, one tick.  t holds what it *)
(* touches: mode, bit and tp (its statics), cur (current_pulse), pin.      *)
(***************************************************************************)
\* a reload that starts every pulse with the pin high
TxNextPulseNoSkip(t) ==
    LET cur == Byte(t.cur + 1)
        tp == pulse[cur]
    IN  IF cur = msg_end
        THEN [t EXCEPT !.cur = cur, !.tp = tp, !.mode = "Idle", !.bit = 0, !.pin = 0]
        ELSE [t EXCEPT !.cur = cur, !.tp = tp, !.bit = 1, !.pin = 1]

\* current_pulse++ and the reload of tp, at the end of a low phase
TxNextPulse(t) ==
    LET cur == Byte(t.cur + 1)
        tp == pulse[cur]
    IN  IF cur = msg_end
        THEN [t EXCEPT !.cur = cur, !.tp = tp, !.mode = "Idle", !.bit = 0, !.pin = 0]
        ELSE [t EXCEPT !.cur = cur, !.tp = tp, !.bit = IF tp[2] # 0 THEN 1 ELSE 0,
                       !.pin = IF tp[2] # 0 THEN 1 ELSE 0]

TxTick(t) ==
    CASE t.mode = "Transmitting" ->
           LET left == IF t.tp[t.bit + 1] # 0 THEN t.tp[t.bit + 1] - 1 ELSE 0
               t1 == [t EXCEPT !.tp[t.bit + 1] = left]
           IN  IF left # 0 THEN t1
               ELSE IF t.bit = 0 THEN TxNextPulse(t1)
               ELSE [t1 EXCEPT !.bit = 0, !.pin = 0]
      [] t.mode = "StartTransmit" ->
           [t EXCEPT !.bit = 1, !.mode = "Transmitting", !.cur = msg_start,
                     !.tp = pulse[msg_start], !.pin = 1]
      [] OTHER -> t

\* the transmitter pin stands at a level for one more tick, while the driver is at a slot
Drives(log, slot, level) ==
    IF log # << >> /\ log[Len(log)].slot = slot /\ log[Len(log)].level = level
    THEN [log EXCEPT ![Len(log)].ticks = @ + 1]
    ELSE Append(log, [ slot |-> slot, level |-> level, ticks |-> 1 ])

\* the ticks taken at once: one while a message is played; with nothing to
\* play the handler only counts, and is taken a full turn of tickcount at a time
TxTicks == IF transceiver_mode \in { "StartTransmit", "Transmitting" } THEN 1 ELSE IdleTicks

TIMER0_COMPB ==
    /\ "OCIE0B" \in TIMSK0
    /\ LET t == TxTick([mode |-> transceiver_mode, bit |-> isr.tx_bit, tp |-> isr.tp,
                        cur |-> current_pulse, pin |-> pins.Transmitter])
       IN  /\ transceiver_mode' = t.mode
           /\ mode_log' = Logged(t.mode)
           /\ isr' = [isr EXCEPT !.tx_bit = t.bit, !.tp = t.tp]
           /\ current_pulse' = t.cur
           /\ pins' = [pins EXCEPT !.Transmitter = t.pin]
           /\ sent' = IF transceiver_mode = "StartTransmit" THEN Drives(<< >>, t.cur, t.pin)
                      ELSE IF transceiver_mode = "Transmitting" /\ t.mode = "Transmitting"
                           THEN Drives(sent, t.cur, t.pin)
                      ELSE sent
    /\ tickcount' = Byte(tickcount + TxTicks)
    /\ TimerIrq
    /\ UNCHANGED << running_state, TIMSK0, pulse, msg_start, msg_end, decvars, iovars, run, xc, taskvars, wave, host, echo, calc, waited >>

(***************************************************************************)
(* The serial receive interrupt: the host's next chunk of bytes arrives    *)
(***************************************************************************)
UART_RX ==
    /\ HostDue
    /\ uart_rx' = uart_rx \o Head(host).bytes
    /\ host' = Tail(host)
    /\ waited' = IF running_state \in DecoderStates /\ waited = 0 THEN 1 ELSE waited
    /\ Wake
    /\ UNCHANGED << running_state, hwvars, ringvars, decvars, out, run, xc, taskvars, wave, echo, calc, sent, irqs >>

(***************************************************************************)
(* rf_bridge_run: the dispatch loop                                        *)
(***************************************************************************)
\* printf("#%02x!%0x*%02x\n", bcount, syncduration, chk)
Trailer(n, d, c) == << Ord("#") >> \o Fmt02x(n) \o << Ord("!") >> \o Fmt0x(d) \o << Ord("*") >> \o Fmt02x(c) \o << NL >>

\* chk += bcount; chk += syncduration
TrailerChk(c, n, d) == Byte(Byte(c + n) + d)

rf_bridge_run ==
    /\ run = "main"
    /\ xc.fn = "none"
    /\ mpc \in { "switch", "stack" }
    /\ IF mpc = "stack"
       THEN /\ flags' = [flags EXCEPT !.display_stacks = 0]
            /\ mpc' = "sleep"
            /\ UNCHANGED << running_state, transceiver_mode, mode_log, msg_end, chk, out, run >>
       ELSE CASE running_state = "SyncSearch" ->
                   /\ transceiver_mode' = "Receiving"
                   /\ mode_log' = Logged("Receiving")
                   /\ run' = "syncsearch"
                   /\ UNCHANGED << running_state, msg_end, chk, out, mpc, flags >>
              [] running_state \in DecoderStates ->
                   /\ run' = "decoder"
                   /\ UNCHANGED << running_state, transceiver_mode, mode_log, msg_end, chk, out, mpc, flags >>
              [] running_state = "DecodeDone" ->
                   /\ chk' = TrailerChk(chk, bcount, syncduration)
                   /\ out' = IF bcount # 0 THEN out \o Trailer(bcount, syncduration, chk') ELSE out
                   /\ running_state' = "SyncSearch"
                   /\ msg_end' = 0
                   /\ mpc' = "stack"
                   /\ UNCHANGED << transceiver_mode, mode_log, run, flags >>
              [] OTHER ->
                   /\ run' = "receive_cmd"
                   /\ UNCHANGED << running_state, transceiver_mode, mode_log, msg_end, chk, out, mpc, flags >>
    /\ waited' = IF (mpc = "switch" /\ waited = 1) \/ (mpc = "stack" /\ waited = 2) THEN waited + 1 ELSE waited
    /\ irqs' = IF mpc = "stack" THEN 0 ELSE irqs
    /\ UNCHANGED << TIMSK0, pins, pulse, current_pulse, msg_start, tickcount, isr, syncduration, byte, bcount, decoded, uart_rx, xc, taskvars, wave, host, echo, calc, sent >>

(***************************************************************************)
(* stuffbit: st holds byte, bcount, chk and the serial output              *)
(***************************************************************************)
Pow2(k) == CASE k = 0 -> 1 [] k = 1 -> 2 [] k = 2 -> 4 [] k = 3 -> 8 [] k = 4 -> 16 [] k = 5 -> 32 [] k = 6 -> 64 [] OTHER -> 128

\* x | (b << k)
OrBit(x, b, k) == IF b = 1 /\ (x \div Pow2(k)) % 2 = 0 THEN x + Pow2(k) ELSE x

\* the byte is sent when it is full or the message ends
Flushes(bn, last) == last # 0 \/ bn = 7

\* the pulse that ends the message is not taken as a bit
stuffbitNotLast(st, b, last) ==
    LET bn == st.bcount % 8
        filled == OrBit(st.byte, b, 7 - bn)
    IN  IF last # 0
        THEN IF bn = 0 THEN st
             ELSE [ byte |-> 0, bcount |-> st.bcount, chk |-> Byte(st.chk + st.byte), out |-> st.out \o Fmt02x(st.byte) ]
        ELSE IF bn = 7
        THEN [ byte |-> 0, bcount |-> Byte(st.bcount + 1), chk |-> Byte(st.chk + filled), out |-> st.out \o Fmt02x(filled) ]
        ELSE [ byte |-> filled, bcount |-> Byte(st.bcount + 1), chk |-> st.chk, out |-> st.out ]

stuffbit(st, b, last) ==
    LET bn == st.bcount % 8
        filled == OrBit(st.byte, b, 7 - bn)
    IN  IF Flushes(bn, last)
        THEN [ byte |-> 0, bcount |-> Byte(st.bcount + 1), chk |-> Byte(st.chk + filled), out |-> st.out \o Fmt02x(filled) ]
        ELSE [ byte |-> filled, bcount |-> Byte(st.bcount + 1), chk |-> st.chk, out |-> st.out ]

(***************************************************************************)
(* cr_syncsearch                                                           *)
(***************************************************************************)
U16(x) == x % 65536

\* the long pulse halved where it looks like a double one: <<p0, p1, d>>
SyncShape(p0, p1, sd) ==
    LET d == p0 + p1
    IN  IF d > 112
        THEN IF abs_sub(p0 \div 2, p1) < d \div 8 THEN << p0 \div 2, p1, (p0 \div 2) + p1 >>
             ELSE IF abs_sub(p0, p1 \div 2) < d \div 8 THEN << p0, p1 \div 2, p0 + (p1 \div 2) >>
             ELSE IF abs_sub(d \div 2, sd) < d \div 16 THEN << p0 \div 2, p1 \div 2, d \div 2 >>
             ELSE << p0, p1, d >>
        ELSE << p0, p1, d >>

\* d < 0x20 || abs_sub(d, syncduration) > 8
SyncBreaks(d, sd) == d < 32 \/ abs_sub(d, sd) > 8

\* syncduration += (d - syncduration) / 2, in 16-bit unsigned arithmetic
SyncTrack(d, sd) == Byte(sd + (U16(d - sd) \div 2))

\* one pulse of the walk: w holds pi, syncstart, synclen, manchester and syncduration
SyncWalk(w, p) ==
    LET sh == SyncShape(p[1], p[2], w.sd)
        d == sh[3]
    IN  IF SyncBreaks(d, w.sd)
        THEN [w EXCEPT !.syncstart = w.pi, !.sd = Byte(d), !.synclen = 0, !.manchester = 0, !.pi = Byte(w.pi + 1)]
        ELSE [w EXCEPT !.manchester = IF abs_sub(sh[2], sh[1]) < d \div 8 THEN Byte(@ + 1) ELSE @,
                       !.sd = SyncTrack(d, w.sd),
                       !.synclen = @ + 1,
                       !.pi = Byte(w.pi + 1)]

\* a choice that looks at manchester before syncduration
SyncChoiceEvenFirst(display_pulses, sd, manchester) ==
    IF display_pulses = 1 THEN "DecodeRawPulses"
    ELSE IF manchester > 4 THEN "Decoding_Manchester"
    ELSE IF sd > 128 THEN "Decoding_OOK"
    ELSE "Decoding_ASK"

\* the decoder the searcher hands the pulse train to
SyncChoice(display_pulses, sd, manchester) ==
    IF display_pulses = 1 THEN "DecodeRawPulses"
    ELSE IF sd > 128 THEN "Decoding_OOK"
    ELSE IF manchester > 4 THEN "Decoding_Manchester"
    ELSE "Decoding_ASK"

\* a retry that does not look at the decoder that failed
SyncRetryAny(newstate, manchester, decoded_) == manchester # 0 /\ decoded_ = 0

\* if (newstate == state_Decoding_ASK && manchester && !decoded): try again with manchester
SyncRetry(newstate, manchester, decoded_) == newstate = "Decoding_ASK" /\ manchester # 0 /\ decoded_ = 0

\* "init decoders" and the yield to the chosen one
SyncHandOver(newstate) ==
    /\ msg_start' = ss.syncstart
    /\ chk' = 85
    /\ bcount' = 0
    /\ byte' = 0
    /\ msg_end' = 0
    /\ decoded' = 0
    /\ running_state' = newstate
    /\ ss' = [ss EXCEPT !.pc = "handed", !.newstate = newstate]
    /\ Yield
    /\ UNCHANGED syncduration

cr_syncsearch ==
    /\ run = "syncsearch"
    /\ CASE ss.pc = "wait" ->
              IF ss.pi = current_pulse \/ running_state # "SyncSearch"
              THEN /\ running_state' = IF running_state = "SyncSearch" /\ ss.synclen = 0 /\ uart_rx # << >>
                                       THEN "ReceivingCommand" ELSE running_state
                   /\ Yield
                   /\ UNCHANGED << ss, msg_start, msg_end, chk, bcount, byte, decoded, syncduration >>
              ELSE /\ ss' = [ss EXCEPT !.pc = "walk_test"]
                   /\ UNCHANGED << running_state, msg_start, msg_end, chk, bcount, byte, decoded, syncduration, schedvars >>
         [] ss.pc = "walk_test" ->
              IF ss.pi # current_pulse /\ ss.synclen < SYNC_LEN
              THEN /\ ss' = [ss EXCEPT !.pc = "walk_read"]
                   /\ UNCHANGED << running_state, msg_start, msg_end, chk, bcount, byte, decoded, syncduration, schedvars >>
              ELSE IF ss.synclen = SYNC_LEN
              THEN SyncHandOver(SyncChoice(flags.display_pulses, syncduration, ss.manchester))
              ELSE /\ ss' = [ss EXCEPT !.pc = "wait"]
                   /\ UNCHANGED << running_state, msg_start, msg_end, chk, bcount, byte, decoded, syncduration, schedvars >>
         [] ss.pc = "walk_read" ->
              LET w == SyncWalk([pi |-> ss.pi, syncstart |-> ss.syncstart, synclen |-> ss.synclen,
                                 manchester |-> ss.manchester, sd |-> syncduration], pulse[ss.pi])
              IN  /\ ss' = [ss EXCEPT !.pc = "walk_test", !.pi = w.pi, !.syncstart = w.syncstart,
                                      !.synclen = w.synclen, !.manchester = w.manchester]
                  /\ syncduration' = w.sd
                  /\ UNCHANGED << running_state, msg_start, msg_end, chk, bcount, byte, decoded, schedvars >>
         [] OTHER ->
              IF running_state # "SyncSearch"
              THEN /\ Yield
                   /\ UNCHANGED << ss, running_state, msg_start, msg_end, chk, bcount, byte, decoded, syncduration >>
              ELSE IF SyncRetry(ss.newstate, ss.manchester, decoded)
              THEN SyncHandOver("Decoding_Manchester")
              ELSE /\ ss' = [ss EXCEPT !.pc = "wait", !.synclen = 0, !.manchester = 0,
                                      !.pi = msg_start, !.syncstart = Byte(msg_start + 1)]
                   /\ syncduration' = 0
                   /\ UNCHANGED << running_state, msg_start, msg_end, chk, bcount, byte, decoded, schedvars >>
    /\ UNCHANGED << hwvars, pulse, current_pulse, tickcount, isr, flags, iovars, dec, cmd, envvars >>

(***************************************************************************)
(* The decoders.  A step gives a record r of what the decoder leaves: its  *)
(* own position and locals (dec), decoded, msg_start, msg_end,             *)
(* running_state, the stuffbit state (st) and whether it yields.           *)
(***************************************************************************)
DecNow == [ dec |-> dec, decoded |-> decoded, msg_start |-> msg_start, msg_end |-> msg_end,
            running_state |-> running_state,
            st |-> [ byte |-> byte, bcount |-> bcount, chk |-> chk, out |-> out ],
            yield |-> FALSE ]

DecApply(r) ==
    /\ dec' = r.dec
    /\ decoded' = r.decoded
    /\ msg_start' = r.msg_start
    /\ msg_end' = r.msg_end
    /\ running_state' = r.running_state
    /\ byte' = r.st.byte
    /\ bcount' = r.st.bcount
    /\ chk' = r.st.chk
    /\ out' = r.st.out
    /\ IF r.yield THEN Yield ELSE UNCHANGED schedvars
    /\ UNCHANGED << hwvars, pulse, current_pulse, tickcount, isr, syncduration, flags, uart_rx, ss, cmd, envvars >>

\* while (pi == current_pulse) cr_yield(0);
DecAwait(then) ==
    IF dec.pi = current_pulse THEN [DecNow EXCEPT !.yield = TRUE]
    ELSE [DecNow EXCEPT !.dec.pc = then]

\* a failed lock-in that sends the first byte of a header
DecGiveUpLoud == [DecNow EXCEPT !.decoded = 0, !.msg_start = dec.pi, !.running_state = "SyncSearch",
                                !.dec.pc = "idle", !.yield = TRUE, !.st.out = out \o << Ord("M") >>]

\* lock-in failed: decoded = 0; msg_start = pi; back to the sync search
DecGiveUp == [DecNow EXCEPT !.decoded = 0, !.msg_start = dec.pi, !.running_state = "SyncSearch",
                            !.dec.pc = "idle", !.yield = TRUE]

\* lock-in reached: restart at the beginning and send the header
DecCommit(type) == [DecNow EXCEPT !.decoded = 1, !.dec.pc = "wait", !.dec.pi = msg_start,
                                  !.dec.bit = 0, !.dec.phase = 1, !.dec.demiclock = 0, !.dec.stuffclock = 0,
                                  !.st.out = out \o << Ord("M"), Ord(type), Ord(":") >>]

\* one pulse of a lock-in of n pulses
DecLockIn(ok, n, type) ==
    IF ok
    THEN IF dec.pcount + 1 < n
         THEN [DecNow EXCEPT !.dec.pc = "lock_test", !.dec.pcount = @ + 1, !.dec.pi = Byte(@ + 1)]
         ELSE [DecCommit(type) EXCEPT !.dec.pcount = dec.pcount + 1]
    ELSE DecGiveUp

\* a decoder that goes back to the sync search itself when the message is over
DecDoneToSearch == [DecNow EXCEPT !.running_state = "SyncSearch", !.msg_start = dec.pi, !.dec.pc = "idle", !.yield = TRUE]

\* the message is over: running_state = state_DecodeDone; msg_start = pi
DecDone == [DecNow EXCEPT !.running_state = "DecodeDone", !.msg_start = dec.pi, !.dec.pc = "idle", !.yield = TRUE]

\* while (pi != current_pulse && !msg_end), and the loop around it
DecLoop(goes_on) ==
    IF dec.pi # current_pulse /\ msg_end = 0 THEN [DecNow EXCEPT !.dec.pc = "dec_read"]
    ELSE IF goes_on THEN [DecNow EXCEPT !.dec.pc = "wait"]
    ELSE DecDone

\* msg_end = pulse[pi][0] >= MAX_TICKS_PER_PHASE
Saturated(p) == IF p[1] >= MAX_TICKS_PER_PHASE THEN 1 ELSE 0

(***************************************************************************)
(* cr_decode_ask                                                           *)
(***************************************************************************)
\* abs_sub(d, syncduration) <= 8 with uint8_t d = pulse[pi][0] + pulse[pi][1]
AskValid(p, sd) == abs_sub(Byte(p[1] + p[2]), sd) <= 8

\* the bit taken from the low phase
AskBitLowLonger(p) == IF p[1] > p[2] THEN 1 ELSE 0

\* uint8_t b = pulse[pi][1] > pulse[pi][0]
AskBit(p) == IF p[2] > p[1] THEN 1 ELSE 0

AskStep ==
    CASE dec.pc = "idle" -> [DecNow EXCEPT !.dec.pc = "lock_test", !.dec.pi = msg_start, !.dec.pcount = 0]
      [] dec.pc = "lock_test" -> DecAwait("lock_read")
      [] dec.pc = "lock_read" -> DecLockIn(AskValid(pulse[dec.pi], syncduration), 20, "A")
      [] dec.pc = "wait" -> DecAwait("dec_test")
      [] dec.pc = "dec_test" -> DecLoop(msg_end = 0)
      [] OTHER ->
           LET last == Saturated(pulse[dec.pi])
           IN  [DecNow EXCEPT !.msg_end = last,
                              !.st = stuffbit(@, AskBit(pulse[dec.pi]), last),
                              !.dec.pi = Byte(@ + 1),
                              !.dec.pc = "dec_test"]

cr_decode_ask ==
    /\ run = "decoder"
    /\ running_state = "Decoding_ASK"
    /\ DecApply(AskStep)

(***************************************************************************)
(* cr_decode_ook and cr_decode_manchester share the lock-in test           *)
(***************************************************************************)
HalfOrFull(p, sd, margin) ==
    \/ abs_sub(p[1], sd) <= margin
    \/ abs_sub(p[2], sd) <= margin
    \/ abs_sub(p[1], sd \div 2) <= margin
    \/ abs_sub(p[2], sd \div 2) <= margin

OokStuff(st, p, sd, margin, last) ==
    LET st0 == IF abs_sub(p[1], sd) <= margin THEN stuffbit(st, 0, last) ELSE st
    IN  IF abs_sub(p[2], sd) <= margin THEN stuffbit(st0, 1, last) ELSE st0

OokStep ==
    CASE dec.pc = "idle" -> [DecNow EXCEPT !.dec.pc = "lock_test", !.dec.pi = msg_start, !.dec.pcount = 0,
                                           !.dec.margin = syncduration \div 8]
      [] dec.pc = "lock_test" -> DecAwait("lock_read")
      [] dec.pc = "lock_read" -> DecLockIn(HalfOrFull(pulse[dec.pi], syncduration, dec.margin), 20, "O")
      [] dec.pc = "wait" -> DecAwait("dec_test")
      [] dec.pc = "dec_test" -> DecLoop(msg_end = 0)
      [] OTHER ->
           LET last == Saturated(pulse[dec.pi])
           IN  [DecNow EXCEPT !.msg_end = last,
                              !.st = OokStuff(@, pulse[dec.pi], syncduration, dec.margin, last),
                              !.dec.pi = Byte(@ + 1),
                              !.dec.pc = "dec_test"]

cr_decode_ook ==
    /\ run = "decoder"
    /\ running_state = "Decoding_OOK"
    /\ DecApply(OokStep)

\* if (stuffclock != demiclock) { if (stuffclock & 1) stuffbit(bit, msg_end); stuffclock++; }
ManCatchUp(m, last) ==
    IF m.stuffclock # m.demiclock
    THEN [m EXCEPT !.st = IF m.stuffclock % 2 = 1 THEN stuffbit(@, m.bit, last) ELSE @,
                   !.stuffclock = Byte(@ + 1)]
    ELSE m

\* one half of a pulse: m holds bit, phase, demiclock, stuffclock, pi and the stuffbit state
ManHalf(m, p, sd, margin, last) ==
    LET m1 == ManCatchUp(m, last)
        m2 == IF abs_sub(p[m.phase + 1], sd) < margin
              THEN [m1 EXCEPT !.bit = m.phase, !.demiclock = Byte(@ + 2)]
              ELSE [m1 EXCEPT !.demiclock = Byte(@ + 1)]
        m3 == ManCatchUp(m2, last)
    IN  [m3 EXCEPT !.pi = IF m.phase = 0 THEN Byte(@ + 1) ELSE @, !.phase = 1 - m.phase]

\* a decode loop without the overrun guard
ManGoesOnUnguarded(e, n) == e = 0

\* while (!msg_end && bcount < 0xd0)
ManGoesOn(e, n) == e = 0 /\ n < 208

ManStep ==
    CASE dec.pc = "idle" -> [DecNow EXCEPT !.dec.pc = "lock_test", !.dec.pi = msg_start, !.dec.pcount = 0,
                                           !.dec.margin = syncduration \div 4]
      [] dec.pc = "lock_test" -> DecAwait("lock_read")
      [] dec.pc = "lock_read" -> DecLockIn(HalfOrFull(pulse[dec.pi], syncduration, dec.margin), 32, "M")
      [] dec.pc = "wait" -> DecAwait("dec_test")
      [] dec.pc = "dec_test" -> DecLoop(ManGoesOn(msg_end, bcount))
      [] OTHER ->
           LET last == Saturated(pulse[dec.pi])
               m == ManHalf([ bit |-> dec.bit, phase |-> dec.phase, demiclock |-> dec.demiclock,
                              stuffclock |-> dec.stuffclock, pi |-> dec.pi,
                              st |-> [ byte |-> byte, bcount |-> bcount, chk |-> chk, out |-> out ] ],
                            pulse[dec.pi], syncduration, dec.margin, last)
           IN  [DecNow EXCEPT !.msg_end = last,
                              !.st = m.st,
                              !.dec.bit = m.bit, !.dec.phase = m.phase,
                              !.dec.demiclock = m.demiclock, !.dec.stuffclock = m.stuffclock,
                              !.dec.pi = m.pi,
                              !.dec.pc = "dec_test"]

cr_decode_manchester ==
    /\ run = "decoder"
    /\ running_state = "Decoding_Manchester"
    /\ DecApply(ManStep)

(***************************************************************************)
(* cr_decode_pulses: the pulse is read once for the printf and once more   *)
(* for the checksum                                                        *)
(***************************************************************************)
\* printf("%02x%02x", pulse[pi][1], pulse[pi][0])
RawPrint(p) == Fmt02x(p[2]) \o Fmt02x(p[1])

\* chk += pulse[pi][1] + pulse[pi][0]
RawChk(c, p) == Byte(c + p[2] + p[1])

RawStep ==
    CASE dec.pc = "idle" -> [DecNow EXCEPT !.dec.pc = "wait", !.dec.pi = msg_start,
                                           !.st.out = out \o << Ord("M"), Ord("P"), Ord(":") >>]
      [] dec.pc = "wait" -> DecAwait("dec_test")
      [] dec.pc = "dec_test" -> DecLoop(msg_end = 0)
      [] dec.pc = "dec_read" ->
           [DecNow EXCEPT !.msg_end = Saturated(pulse[dec.pi]),
                          !.st.out = out \o RawPrint(pulse[dec.pi]),
                          !.dec.pc = "raw_chk"]
      [] OTHER ->
           [DecNow EXCEPT !.st.chk = RawChk(chk, pulse[dec.pi]),
                          !.st.bcount = Byte(bcount + 1),
                          !.dec.pi = Byte(@ + 1),
                          !.dec.pc = "dec_test"]

cr_decode_pulses ==
    /\ run = "decoder"
    /\ running_state = "DecodeRawPulses"
    /\ DecApply(RawStep)

(***************************************************************************)
(* cr_receive_cmd, with uart_recv, recv_match_string_P, getsbyte and       *)
(* transmit_message.  A step gives a record r of what the parser leaves;   *)
(* r.call is the transceiver function it enters, r.yield whether it yields.*)
(***************************************************************************)
CmdNow == [ cmd |-> cmd, uart_rx |-> uart_rx, out |-> out, pulse |-> pulse, bcount |-> bcount,
            syncduration |-> syncduration, msg_start |-> msg_start, msg_end |-> msg_end,
            current_pulse |-> current_pulse, running_state |-> running_state, flags |-> flags,
            mode_log |-> mode_log, call |-> NoCall, yield |-> FALSE ]

CmdApply(r) ==
    /\ cmd' = r.cmd
    /\ uart_rx' = r.uart_rx
    /\ out' = r.out
    /\ pulse' = r.pulse
    /\ bcount' = r.bcount
    /\ syncduration' = r.syncduration
    /\ msg_start' = r.msg_start
    /\ msg_end' = r.msg_end
    /\ current_pulse' = r.current_pulse
    /\ running_state' = r.running_state
    /\ flags' = r.flags
    /\ mode_log' = r.mode_log
    /\ IF r.yield THEN Yield ELSE run' = run /\ mpc' = mpc /\ xc' = r.call
    /\ waited' = IF cmd.pc = "reset" THEN 0 ELSE waited
    /\ UNCHANGED << transceiver_mode, TIMSK0, pins, tickcount, isr, chk, byte, decoded, ss, dec, wave, host, echo, calc, sent, irqs >>

\* the receive timeout of uart_recv, counted in turns of the 8-bit tick
RECV_TIMEOUT == 1000

\* entering uart_recv(): timeout = 0; tick = tickcount
RecvCall(r, ret) == [r EXCEPT !.cmd.pc = "uart_recv", !.cmd.ret = ret, !.cmd.timeout = 0, !.cmd.tick = tickcount]

\* one turn of the loop of uart_recv(), or its return
RecvStep ==
    IF uart_rx = << >> /\ cmd.timeout < RECV_TIMEOUT
    THEN IF cmd.tick # tickcount
         THEN [CmdNow EXCEPT !.cmd.tick = Byte(@ + 1),
                             !.cmd.timeout = IF Byte(cmd.tick + 1) = 255 THEN @ + 1 ELSE @]
         ELSE [CmdNow EXCEPT !.yield = TRUE]
    ELSE IF uart_rx = << >>
    THEN [CmdNow EXCEPT !.cmd.rv = TIMEOUT_CHAR, !.cmd.pc = cmd.ret]
    ELSE [CmdNow EXCEPT !.cmd.rv = Head(uart_rx), !.uart_rx = Tail(uart_rx), !.cmd.pc = cmd.ret,
                        !.cmd.line = Append(@, Head(uart_rx))]

\* entering one of the transceiver switch functions
XCall(r, fn, ret) == [r EXCEPT !.call = Call(fn, ret), !.cmd.pc = "call"]

\* entering getsbyte(&target): cnt = 0; *res = 0
GetsCall(r, target) == RecvCall([r EXCEPT !.cmd.gcnt = 0, !.cmd.gres = 0, !.cmd.gtgt = target], "gs")

Keyword == [ P |-> Str(<< "P", "U", "L", "S", "E", "\n" >>),
             D |-> Str(<< "D", "E", "M", "O", "D", "\n" >>),
             S |-> Str(<< "S", "T", "A", "C", "K", "\n" >>) ]

\* what matching the keyword sets
KeywordFlags(f, k) ==
    CASE k = "P" -> [f EXCEPT !.display_pulses = 1]
      [] k = "D" -> [f EXCEPT !.display_pulses = 0]
      [] OTHER -> [f EXCEPT !.display_stacks = 1]

\* the result b of recv_match_string_P: '\n' is taken for a match
MatchDone(r, k, b) ==
    IF b = NL
    THEN [r EXCEPT !.flags = KeywordFlags(@, k), !.cmd.state = @ + 1, !.cmd.b = b, !.cmd.pc = "skipline"]
    ELSE [r EXCEPT !.cmd.err = b, !.cmd.b = b, !.cmd.pc = "skipline"]

\* the loop of recv_match_string_P with b just received, i characters matched
MatchStep(r, k, b, i) ==
    IF b = Keyword[k][i + 1]
    THEN IF i + 1 = Len(Keyword[k])
         THEN MatchDone(r, k, b)
         ELSE RecvCall([r EXCEPT !.cmd.mi = i + 1, !.cmd.mw = k], "match")
    ELSE MatchDone(r, k, b)

\* a payload byte of a type 'A' message as 8 pulses from slot n on
AskPulse(bit, sd) == IF bit = 1 THEN << sd \div 4, sd - (sd \div 4) >> ELSE << sd - (sd \div 4), sd \div 4 >>

ExpandAsk(pl, n, v, sd) ==
    [ i \in 0..255 |->
        LET k == Byte(i - n)
        IN  IF k < 8 THEN AskPulse((v \div Pow2(7 - k)) % 2, sd) ELSE pl[i] ]

\* a payload byte stored: chk += byte, and the pulses of the message type
PayloadByte(r) ==
    LET v == r.cmd.byte
        r1 == [r EXCEPT !.cmd.chk = Byte(@ + v)]
    IN  IF r.cmd.msg_type = Ord("A")
        THEN [r1 EXCEPT !.pulse = ExpandAsk(r.pulse, r.bcount, v, r.syncduration), !.bcount = Byte(@ + 8)]
        ELSE r1

\* switch (b) at newkey
NewKey(r, b) ==
    CASE b = Ord(":") -> GetsCall([r EXCEPT !.cmd.b = b], "byte")
      [] b = Ord("*") -> GetsCall([r EXCEPT !.cmd.b = b], "b")
      [] b = Ord("!") -> GetsCall([r EXCEPT !.cmd.b = b], "syncduration")
      [] b = Ord("#") -> GetsCall([r EXCEPT !.cmd.b = b], "bcount")
      [] OTHER -> [r EXCEPT !.cmd.b = b, !.cmd.err = b, !.cmd.pc = "skipline"]

\* a parser that takes any checksum claim
AnyChecksum(claimed, sum) == TRUE

\* the checksum claim: b == chk
ChecksumOk(claimed, sum) == claimed = sum

\* getsbyte returned ret, having left res in its target
GetsReturn(r, ret, res) ==
    CASE r.cmd.gtgt = "byte" ->
           LET r1 == [r EXCEPT !.cmd.byte = res]
           IN  IF ret # 0 THEN NewKey(r1, ret) ELSE GetsCall(PayloadByte([r1 EXCEPT !.cmd.b = 0]), "byte")
      [] r.cmd.gtgt = "b" ->
           LET r1 == [r EXCEPT !.cmd.b = res]
           IN  IF ret # 0 THEN [r1 EXCEPT !.cmd.pc = "skipline"]
               ELSE IF ChecksumOk(res, r.cmd.chk) THEN [r1 EXCEPT !.cmd.state = @ + 1, !.cmd.pc = "tm_start"]
               ELSE [r1 EXCEPT !.cmd.err = Ord("*"), !.cmd.pc = "skipline"]
      [] r.cmd.gtgt = "syncduration" ->
           LET r1 == [r EXCEPT !.syncduration = res]
           IN  IF ret # 0 THEN [r1 EXCEPT !.cmd.pc = "skipline"]
               ELSE RecvCall([r1 EXCEPT !.cmd.chk = Byte(@ + res)], "key")
      [] OTHER ->
           LET r1 == [r EXCEPT !.bcount = res]
           IN  IF ret # 0 THEN [r1 EXCEPT !.cmd.pc = "skipline"]
               ELSE RecvCall([r1 EXCEPT !.cmd.chk = Byte(@ + res)], "key")

\* getsbyte with the character s just received
GetsStep(r, s) ==
    LET shifted == Byte(r.cmd.gres * 16)
        h == HexValue(s)
    IN  IF h < 0 THEN GetsReturn(r, s, shifted)
        ELSE IF r.cmd.gcnt + 1 = 2 THEN GetsReturn(r, 0, shifted + h)
        ELSE RecvCall([r EXCEPT !.cmd.gres = shifted + h, !.cmd.gcnt = @ + 1], "gs")

\* 'M' and the message type just received
TypeStep(r, t) ==
    LET r1 == [r EXCEPT !.cmd.msg_type = t]
        go(x) == RecvCall([x EXCEPT !.bcount = 0, !.cmd.chk = 85], "key")
    IN  CASE t = TIMEOUT_CHAR -> [r1 EXCEPT !.cmd.pc = "again"]
          [] t = Ord("A") -> go([r1 EXCEPT !.syncduration = 99])
          [] t = Ord("M") -> go([r1 EXCEPT !.syncduration = 64])
          [] t = Ord("P") -> go(r1)
          [] OTHER -> [r1 EXCEPT !.cmd.err = r.cmd.b, !.cmd.pc = "skipline"]

\* the first byte b of a line, after disable_transceiver()
Dispatch(r, b) ==
    CASE b = Ord("M") -> RecvCall(r, "type")
      [] b = Ord("P") -> MatchStep(r, "P", b, 0)
      [] b = Ord("D") -> MatchStep(r, "D", b, 0)
      [] b = Ord("S") -> MatchStep(r, "S", b, 0)
      [] OTHER -> [r EXCEPT !.cmd.pc = "skipline"]

\* a threshold one lower
TooShortBelow(e) == e <= 15

\* too small, don't bother
TooShort(e) == e <= 16

\* uint8_t retries = 3
TX_RETRIES == 3

\* a transmit_message that sends the message twice
TransmitTwice(r) ==
    LET e == Byte(r.bcount + 1)
        r1 == [r EXCEPT !.pulse[r.bcount] = << MAX_TICKS_PER_PHASE, 0 >>, !.msg_end = e, !.msg_start = 0]
    IN  IF TooShort(e) THEN [r1 EXCEPT !.cmd.pc = "skipline"]
        ELSE [r1 EXCEPT !.cmd.retries = 2, !.cmd.pc = "tm_loop"]

\* a transmit_message that rewinds the filling cursor itself
TransmitRewind(r) ==
    LET e == Byte(r.bcount + 1)
        r1 == [r EXCEPT !.pulse[r.bcount] = << MAX_TICKS_PER_PHASE, 0 >>, !.msg_end = e, !.msg_start = 0,
                        !.current_pulse = 0]
    IN  IF TooShort(e) THEN [r1 EXCEPT !.cmd.pc = "skipline"]
        ELSE [r1 EXCEPT !.cmd.retries = TX_RETRIES, !.cmd.pc = "tm_loop"]

\* transmit_message up to its loop
TransmitStart(r) ==
    LET e == Byte(r.bcount + 1)
        r1 == [r EXCEPT !.pulse[r.bcount] = << MAX_TICKS_PER_PHASE, 0 >>, !.msg_end = e, !.msg_start = 0]
    IN  IF TooShort(e) THEN [r1 EXCEPT !.cmd.pc = "skipline"]
        ELSE [r1 EXCEPT !.cmd.retries = TX_RETRIES, !.cmd.pc = "tm_loop"]

\* if (err) printf("!%d\n", err); else if (state) printf("*OK\n")
Reply(err, state) ==
    IF err # 0 THEN << Ord("!") >> \o FmtD(err) \o << NL >>
    ELSE IF state # 0 THEN Str(<< "*", "O", "K", "\n" >>)
    ELSE << >>

\* a closing step that leaves the filling cursor where it is
CmdResetKeepCursor(r) == [r EXCEPT !.running_state = "SyncSearch", !.msg_start = 0, !.msg_end = 0,
                                   !.cmd.pc = "idle", !.yield = TRUE]

\* running_state = state_SyncSearch; msg_start = msg_end = current_pulse = 0
CmdReset(r) == [r EXCEPT !.running_state = "SyncSearch", !.msg_start = 0, !.msg_end = 0, !.current_pulse = 0,
                         !.cmd.pc = "idle", !.yield = TRUE]

CmdStep ==
    CASE cmd.pc = "idle" -> RecvCall([CmdNow EXCEPT !.cmd.state = 0, !.cmd.err = 0, !.cmd.line = << >>, !.mode_log = << >>], "first")
      [] cmd.pc = "uart_recv" -> RecvStep
      [] cmd.pc = "first" ->
           IF cmd.rv = TIMEOUT_CHAR THEN [CmdNow EXCEPT !.cmd.b = cmd.rv, !.cmd.pc = "again"]
           ELSE XCall([CmdNow EXCEPT !.cmd.b = cmd.rv], "disable_transceiver", "dispatch")
      [] cmd.pc = "dispatch" -> Dispatch(CmdNow, cmd.b)
      [] cmd.pc = "match" -> MatchStep(CmdNow, cmd.mw, cmd.rv, cmd.mi)
      [] cmd.pc = "type" -> TypeStep(CmdNow, cmd.rv)
      [] cmd.pc = "key" -> NewKey(CmdNow, cmd.rv)
      [] cmd.pc = "gs" -> GetsStep(CmdNow, cmd.rv)
      [] cmd.pc = "tm_start" -> TransmitStart(CmdNow)
      [] cmd.pc = "tm_loop" ->
           IF cmd.retries # 0
           THEN XCall([CmdNow EXCEPT !.cmd.retries = @ - 1], "enable_transmitter", "tm_wait")
           ELSE XCall(CmdNow, "enable_receiver", "skipline")
      [] cmd.pc = "tm_wait" ->
           IF transceiver_mode # "Idle" THEN [CmdNow EXCEPT !.yield = TRUE]
           ELSE XCall(CmdNow, "disable_transceiver", "tm_loop")
      [] cmd.pc = "skipline" ->
           IF cmd.b >= 32 /\ cmd.b # TIMEOUT_CHAR THEN RecvCall(CmdNow, "skip_got")
           ELSE [CmdNow EXCEPT !.out = out \o Reply(cmd.err, cmd.state), !.cmd.pc = "again"]
      [] cmd.pc = "skip_got" -> [CmdNow EXCEPT !.cmd.b = cmd.rv, !.cmd.pc = "skipline"]
      [] cmd.pc = "again" -> XCall(CmdNow, "enable_receiver", "reset")
      [] OTHER -> CmdReset(CmdNow)

cr_receive_cmd ==
    /\ run = "receive_cmd"
    /\ xc.fn = "none"
    /\ cmd.pc # "call"
    /\ CmdApply(CmdStep)

(***************************************************************************)
(* The host: it may send back a type 'A' line it has received              *)
(***************************************************************************)
\* the end of the first complete line of 'out' behind position e, or 0
LineEnd(e) == IF \E j \in (e + 1)..Len(out) : out[j] = NL
              THEN CHOOSE j \in (e + 1)..Len(out) : out[j] = NL /\ \A k \in (e + 1)..(j - 1) : out[k] # NL
              ELSE 0

IsTypeA(line) == Len(line) >= 3 /\ line[1] = Ord("M") /\ line[2] = Ord("A") /\ line[3] = Ord(":")

HostEcho ==
    /\ LineEnd(echo) # 0
    /\ echo' = LineEnd(echo)
    /\ LET line == SubSeq(out, echo + 1, LineEnd(echo))
       IN  IF IsTypeA(line)
           THEN uart_rx' = uart_rx \o line /\ Wake
           ELSE uart_rx' = uart_rx /\ mpc' = mpc
    /\ UNCHANGED << running_state, hwvars, ringvars, decvars, out, run, xc, taskvars, wave, host, waited, irqs, calc, sent >>

(***************************************************************************)
(* Power-on, up to the enable_receiver() before the dispatch loop.  A      *)
(* scenario is what the surroundings do: the receiver pin's wave, the      *)
(* serial input the host sends (in chunks) and the message the SIMAVR      *)
(* build prints and puts in the receive buffer at the start.  cr_start     *)
(* runs each task up to its first cr_yield: the sync search has taken      *)
(* pi = current_pulse and looked at the receive buffer once.               *)
(***************************************************************************)
Banner == Str(<< "*", " ", "S", "t", "a", "r", "t", "i", "n", "g", " ", "R", "F", " ", "F", "i", "r", "m", "w", "a", "r", "e", "\n" >>)

\* no function has been applied on its own
NoCalc == [ fn |-> "none" ]

Boot(sc) ==
    /\ running_state = IF sc.preload # << >> THEN "ReceivingCommand" ELSE "SyncSearch"
    /\ transceiver_mode = "Receiving"
    /\ TIMSK0 = { }
    /\ pins = [ Antenna |-> 0, Transmitter |-> 0 ]
    /\ mode_log = << >>
    /\ pulse = [ i \in 0..255 |-> << 0, 0 >> ]
    /\ current_pulse = 0
    /\ msg_start = 0
    /\ msg_end = 0
    /\ tickcount = 0
    /\ isr = [ rx_bit |-> 0, tx_bit |-> 0, tp |-> << 0, 0 >> ]
    /\ syncduration = 0
    /\ chk = 0
    /\ byte = 0
    /\ bcount = 0
    /\ decoded = 0
    /\ flags = [ display_pulses |-> 0, display_stacks |-> 0 ]
    /\ uart_rx = sc.preload
    /\ out = Banner \o sc.preload
    /\ run = "main"
    /\ mpc = "call"
    /\ xc = Call("enable_receiver", "sleep")
    /\ ss = [ pc |-> "wait", pi |-> 0, syncstart |-> 0, synclen |-> 0, manchester |-> 0, newstate |-> "SyncSearch" ]
    /\ dec = [ pc |-> "idle", pi |-> 0, pcount |-> 0, margin |-> 0, bit |-> 0, phase |-> 1, demiclock |-> 0, stuffclock |-> 0 ]
    /\ cmd = [ pc |-> "idle", ret |-> "first", timeout |-> 0, tick |-> 0, rv |-> 0, b |-> 0, state |-> 0, err |-> 0,
               byte |-> 0, msg_type |-> 0, chk |-> 0, gcnt |-> 0, gres |-> 0, gtgt |-> "byte", mi |-> 0, mw |-> "P",
               retries |-> 0, line |-> << >> ]
    /\ wave = sc.wave
    /\ host = sc.host
    /\ echo = Len(Banner) + Len(sc.preload)
    /\ waited = 0
    /\ irqs = 0
    /\ calc = NoCalc
    /\ sent = << >>

(***************************************************************************)
(* Serial lines                                                            *)
(***************************************************************************)
RECURSIVE HexText(_)
HexText(bytes) == IF bytes = << >> THEN << >> ELSE Fmt02x(Head(bytes)) \o HexText(Tail(bytes))

RECURSIVE SumBytes(_)
SumBytes(bytes) == IF bytes = << >> THEN 0 ELSE Head(bytes) + SumBytes(Tail(bytes))

\* M<type>!<dd>:<hex>#<nn>*<cc>, the token order of the self-test message
CommandLine(type, dd, bytes, nn, cc) ==
    << Ord("M"), Ord(type), Ord("!") >> \o Fmt02x(dd) \o << Ord(":") >> \o HexText(bytes)
        \o << Ord("#") >> \o Fmt02x(nn) \o << Ord("*") >> \o Fmt02x(cc) \o << NL >>

\* the checksum a sender computes for that line
LineSum(dd, bytes, nn) == Byte(85 + SumBytes(bytes) + dd + nn)

(***************************************************************************)
(* Scenarios: what the receiver pin and the host do                        *)
(***************************************************************************)
\* one pulse on the receiver pin: high for hi ticks, then low for lo ticks
Cycle(hi, lo) == << << 1, hi >>, << 0, lo >> >>

RECURSIVE Rep(_, _)
Rep(n, w) == IF n = 0 THEN << >> ELSE w \o Rep(n - 1, w)

\* an ASK bit of 36 ticks: mostly high for a 1, mostly low for a 0
AskCycle(b) == IF b = 1 THEN Cycle(27, 9) ELSE Cycle(9, 27)

RECURSIVE AskTrain(_)
AskTrain(bits) == IF bits = << >> THEN << >> ELSE AskCycle(Head(bits)) \o AskTrain(Tail(bits))

\* the last pulse of a message: a long silence, and the edge that commits it
Ending(hi) == << << 1, hi >>, << 0, IdleTicks >>, << 1, 1 >> >>

\* 0x40 0x55 0x3, sent as 20 bits and a closing pulse
AskBits == << 0, 1, 0, 0, 0, 0, 0, 0,  0, 1, 0, 1, 0, 1, 0, 1,  0, 0, 1, 1 >>

AskWave == AskTrain(AskBits) \o Ending(27)

\* the payload of the self-test message
SelfTestPayload == << 64, 85, 51, 0 >>

\* "MA!30:40553300#19*66\n"
SelfTest == CommandLine("A", 48, SelfTestPayload, 25, 102)

\* the same with bit count 0x20, which the checksum 0x66 does not cover
SelfTestWrong == CommandLine("A", 48, SelfTestPayload, 32, 102)

\* a type 'A' line of short pulses with a checksum that is right
Sound(nn) == CommandLine("A", 4, SelfTestPayload, nn, LineSum(4, SelfTestPayload, nn))

\* and one with a checksum that is wrong
Unsound(nn) == CommandLine("A", 4, SelfTestPayload, nn, Byte(LineSum(4, SelfTestPayload, nn) + 1))

\* "MA:4055#0f*f9\n": 16 pulses of the default duration, too short to be sent
Short == << Ord("M"), Ord("A"), Ord(":") >> \o HexText(<< 64, 85 >>) \o << Ord("#") >> \o Fmt02x(15)
             \o << Ord("*") >> \o Fmt02x(Byte(85 + 64 + 85 + 15)) \o << NL >>

\* the host sends bytes when the wave has 'at' phases left
Chunk(at, bytes) == [ at |-> at, bytes |-> bytes ]

Quiet(bytes) == [ wave |-> << >>, host |-> << Chunk(0, bytes) >>, preload |-> << >> ]

\* commands on a silent receiver
CmdScenarios ==
    { Quiet(Sound(15)), Quiet(Sound(16)), Quiet(Sound(17)), Quiet(Unsound(16)), Quiet(SelfTestWrong),
      Quiet(Keyword.P), [ wave |-> << >>, host |-> << >>, preload |-> SelfTest ] }

\* an ASK message, which the host sends back when it has read it
AskScenarios == { [ wave |-> AskWave, host |-> << >>, preload |-> << >> ] }

\* two pulses that do not match, then a train; PULSE is sent first and a short
\* type 'A' line after the second pulse
TrainLen == 3

GhostWave == Cycle(27, 9) \o Cycle(40, 20) \o Cycle(27, 9) \o Rep(TrainLen, Cycle(27, 9))

\* raw mode after a command, and a PULSE sent while an ASK message is decoded
RawScenarios ==
    { [ wave |-> GhostWave, host |-> << Chunk(Len(GhostWave), Keyword.P), Chunk(Len(GhostWave) - 5, Short) >>,
        preload |-> << >> ],
      [ wave |-> AskWave, host |-> << Chunk(3, Keyword.P) >>, preload |-> << >> ] }

\* "MA!30:4055", and nothing after it
Truncated == SubSeq(SelfTest, 1, 10)

LiveScenarios == { Quiet(Truncated) }

(***************************************************************************)
(* Specifications                                                          *)
(***************************************************************************)
InitCmd == \E sc \in CmdScenarios : Boot(sc)

NextCmd ==
    \/ disable_transceiver
    \/ enable_receiver
    \/ enable_transmitter
    \/ TIMER0_COMPA
    \/ TIMER0_COMPB
    \/ UART_RX
    \/ rf_bridge_run
    \/ cr_syncsearch
    \/ cr_receive_cmd

SpecCmd == InitCmd /\ [][NextCmd]_vars

InitAsk == \E sc \in AskScenarios : Boot(sc)

NextAsk ==
    \/ disable_transceiver
    \/ enable_receiver
    \/ enable_transmitter
    \/ TIMER0_COMPA
    \/ TIMER0_COMPB
    \/ HostEcho
    \/ rf_bridge_run
    \/ cr_syncsearch
    \/ cr_decode_ask
    \/ cr_receive_cmd

SpecAsk == InitAsk /\ [][NextAsk]_vars

InitRaw == \E sc \in RawScenarios : Boot(sc)

NextRaw ==
    \/ disable_transceiver
    \/ enable_receiver
    \/ TIMER0_COMPA
    \/ UART_RX
    \/ rf_bridge_run
    \/ cr_syncsearch
    \/ cr_decode_ask
    \/ cr_decode_pulses
    \/ cr_receive_cmd

SpecRaw == InitRaw /\ [][NextRaw]_vars

InitLive == \E sc \in LiveScenarios : Boot(sc)

NextLive ==
    \/ disable_transceiver
    \/ enable_receiver
    \/ TIMER0_COMPA
    \/ TIMER0_COMPA_tick
    \/ UART_RX
    \/ rf_bridge_run
    \/ cr_syncsearch
    \/ cr_receive_cmd

\* the CPU runs the code that is ready, an enabled timer ticks, the host sends
SpecLive ==
    /\ InitLive
    /\ [][NextLive]_vars
    /\ WF_vars(disable_transceiver)
    /\ WF_vars(enable_receiver)
    /\ WF_vars(TIMER0_COMPA)
    /\ WF_vars(TIMER0_COMPA_tick)
    /\ WF_vars(UART_RX)
    /\ WF_vars(rf_bridge_run)
    /\ WF_vars(cr_syncsearch)
    /\ WF_vars(cr_receive_cmd)

(***************************************************************************)
(* Reading the serial output                                               *)
(***************************************************************************)
\* position of the last ch in line, 0 if there is none
LastIndex(line, ch) ==
    IF \E i \in 1..Len(line) : line[i] = ch
    THEN CHOOSE i \in 1..Len(line) : line[i] = ch /\ \A j \in (i + 1)..Len(line) : line[j] # ch
    ELSE 0

\* position of the first ch in line, 0 if there is none
FirstIndex(line, ch) ==
    IF \E i \in 1..Len(line) : line[i] = ch
    THEN CHOOSE i \in 1..Len(line) : line[i] = ch /\ \A j \in 1..(i - 1) : line[j] # ch
    ELSE 0

\* the number a hexadecimal text stands for
RECURSIVE HexNumber(_)
HexNumber(ds) == IF ds = << >> THEN 0 ELSE 16 * HexNumber(SubSeq(ds, 1, Len(ds) - 1)) + HexValue(ds[Len(ds)])

\* the sum of the bytes a hexadecimal text stands for, two digits each
RECURSIVE PairSum(_)
PairSum(ds) == IF Len(ds) < 2 THEN 0 ELSE HexNumber(SubSeq(ds, 1, 2)) + PairSum(SubSeq(ds, 3, Len(ds)))

\* the byte of each pair of digits
RECURSIVE PairBytes(_)
PairBytes(ds) == IF Len(ds) < 2 THEN << >> ELSE << HexNumber(SubSeq(ds, 1, 2)) >> \o PairBytes(SubSeq(ds, 3, Len(ds)))

\* 'out' ends with a complete line
LineSent == Len(out) > 0 /\ out[Len(out)] = NL

\* the last line of out, without its newline
LastLine ==
    LET e == Len(out) - 1
        b == IF \E i \in 1..e : out[i] = NL THEN CHOOSE i \in 1..e : out[i] = NL /\ \A j \in (i + 1)..e : out[j] # NL ELSE 0
    IN  SubSeq(out, b + 1, e)

\* l is a message line M<type>:<payload>#<nn>!<dd>*<cc>
HasTrailer(l) == Len(l) > 3 /\ l[1] = Ord("M") /\ FirstIndex(l, Ord(":")) = 3 /\ LastIndex(l, Ord("#")) > 0

TrailerCount(l) == HexNumber(SubSeq(l, LastIndex(l, Ord("#")) + 1, LastIndex(l, Ord("!")) - 1))

TrailerDuration(l) == HexNumber(SubSeq(l, LastIndex(l, Ord("!")) + 1, LastIndex(l, Ord("*")) - 1))

TrailerSum(l) == HexNumber(SubSeq(l, LastIndex(l, Ord("*")) + 1, Len(l)))

PayloadText(l) == SubSeq(l, 4, LastIndex(l, Ord("#")) - 1)

(***************************************************************************)
(* C1: the compare interrupts of the sampler (A) and of the transmit       *)
(* driver (B) are never both enabled, at any point of disable_transceiver, *)
(* enable_receiver or enable_transmitter.                                  *)
(***************************************************************************)
C1_OneTimerInterrupt == ~(timer_mask \subseteq TIMSK0)

\* the receiver is being switched on again after a transmission
C1_Witness ==
    /\ xc.fn = "enable_receiver"
    /\ TIMSK0 = { "OCIE0A" }
    /\ \E i \in 1..Len(mode_log) : mode_log[i] = "Transmitting"

(***************************************************************************)
(* C2: on every emitted message line the trailer checksum is               *)
(* (0x55 + the payload bytes + bit count + sync duration) mod 256.         *)
(***************************************************************************)
C2_TrailerChecksum ==
    (LineSent /\ HasTrailer(LastLine)) =>
        TrailerSum(LastLine) = Byte(85 + PairSum(PayloadText(LastLine)) + TrailerCount(LastLine) + TrailerDuration(LastLine))

(***************************************************************************)
(* C3: the sync search and the decoders read pulse[pi] only when pi is not *)
(* the slot the sampler is filling.                                        *)
(***************************************************************************)
C3_NoAliasedRead ==
    /\ (run = "syncsearch" /\ ss.pc = "walk_read" => ss.pi # current_pulse)
    /\ (run = "decoder" /\ dec.pc \in { "lock_read", "dec_read", "raw_chk" } => dec.pi # current_pulse)

(***************************************************************************)
(* C4, as stated: only the sampler interrupt changes current_pulse.        *)
(***************************************************************************)
C4_OnlySampler == [][current_pulse' # current_pulse => TIMER0_COMPA]_vars

(***************************************************************************)
(* C4, amended: current_pulse is changed only by the sampler interrupt, by *)
(* the transmit interrupt (its replay cursor) and by the command parser's  *)
(* closing reset; the sync search and the decoders never change it.        *)
(***************************************************************************)
C4_Writers ==
    [][current_pulse' # current_pulse =>
          \/ TIMER0_COMPA
          \/ TIMER0_COMPB
          \/ cr_receive_cmd /\ cmd.pc = "reset"]_vars

\* the transmit driver has moved the cursor on
C4_Witness == transceiver_mode = "Transmitting" /\ current_pulse = 1 /\ "OCIE0B" \in TIMSK0

(***************************************************************************)
(* Reading a command line as the host wrote it                             *)
(***************************************************************************)
\* the command parser has come to its closing step
Closing == run = "receive_cmd" /\ cmd.pc = "reset"

\* the transceiver was switched to transmit while the command was processed
Transmitted == \E i \in 1..Len(mode_log) : mode_log[i] \in { "StartTransmit", "Transmitting" }

\* the sum of the two-digit fields of a text, whatever key precedes them
RECURSIVE FieldSum(_)
FieldSum(ds) ==
    IF Len(ds) = 0 THEN 0
    ELSE IF Head(ds) \in { Ord(":"), Ord("!"), Ord("#") } THEN FieldSum(Tail(ds))
    ELSE IF Len(ds) < 2 THEN 0
    ELSE HexNumber(SubSeq(ds, 1, 2)) + FieldSum(SubSeq(ds, 3, Len(ds)))

\* l is a message command with a checksum claim of two digits
Starred(l) ==
    /\ Len(l) > 2 /\ l[1] = Ord("M")
    /\ FirstIndex(l, Ord("*")) > 0
    /\ Len(l) >= FirstIndex(l, Ord("*")) + 2

Claimed(l) == HexNumber(SubSeq(l, FirstIndex(l, Ord("*")) + 1, FirstIndex(l, Ord("*")) + 2))

Accumulated(l) == Byte(85 + FieldSum(SubSeq(l, 3, FirstIndex(l, Ord("*")) - 1)))

\* bit i of a payload, the most significant bit of the first byte being bit 0
BitOf(bytes, i) == (bytes[(i \div 8) + 1] \div Pow2(7 - (i % 8))) % 2

ThreeCycles == << "Idle", "StartTransmit", "Transmitting", "Idle", "StartTransmit", "Transmitting",
                  "Idle", "StartTransmit", "Transmitting", "Idle", "Receiving" >>

(***************************************************************************)
(* C5: a type 'A' line the firmware has sent, fed back as a command, is    *)
(* accepted, and loads slots 0..bit_count-1 with pulses of the line's      *)
(* duration dd, high longer than low exactly for the 1 bits of the payload.*)
(***************************************************************************)
C5_RoundTrip ==
    /\ (Closing /\ IsTypeA(cmd.line)) => cmd.err = 0 /\ cmd.state # 0
    /\ (run = "receive_cmd" /\ cmd.pc = "tm_start" /\ IsTypeA(cmd.line)) =>
          \A i \in 0..(TrailerCount(cmd.line) - 1) :
              /\ pulse[i][1] + pulse[i][2] = TrailerDuration(cmd.line)
              /\ (pulse[i][2] > pulse[i][1]) <=> (BitOf(PairBytes(PayloadText(cmd.line)), i) = 1)

(***************************************************************************)
(* C6, as stated: when PULSE has arrived during a decoder state, one pass  *)
(* of the dispatch loop later the decode is aborted and the command done:  *)
(* SyncSearch, Receiving, msg_start = msg_end = current_pulse = 0.         *)
(***************************************************************************)
C6_WithinOnePass ==
    waited = 3 =>
        /\ running_state = "SyncSearch"
        /\ transceiver_mode = "Receiving"
        /\ msg_start = 0 /\ msg_end = 0 /\ current_pulse = 0

(***************************************************************************)
(* C6, amended: a command that arrives during a decode waits.  Only the    *)
(* decoder ends a decoder state, into SyncSearch or DecodeDone; only the   *)
(* sync search, in SyncSearch and with no sync under way, moves to         *)
(* ReceivingCommand; and the parser's closing step leaves SyncSearch,      *)
(* Receiving, msg_start = msg_end = current_pulse = 0.                     *)
(***************************************************************************)
C6_CommandWaits ==
    [][/\ (running_state \in DecoderStates /\ running_state' # running_state) =>
              run = "decoder" /\ running_state' \in { "SyncSearch", "DecodeDone" }
       /\ (running_state # "ReceivingCommand" /\ running_state' = "ReceivingCommand") =>
              cr_syncsearch /\ running_state = "SyncSearch" /\ ss.synclen = 0
       /\ (cr_receive_cmd /\ Closing) =>
              /\ running_state' = "SyncSearch"
              /\ transceiver_mode' = "Receiving"
              /\ msg_start' = 0 /\ msg_end' = 0 /\ current_pulse' = 0]_vars

\* the command that has waited is being received
C6_Witness == waited = 3 /\ running_state = "ReceivingCommand" /\ cmd.line = Keyword.P

(***************************************************************************)
(* C7: the '*' of a command starts transmit_message exactly when the value *)
(* claimed is 0x55 + the payload bytes + the '!' duration + the '#' count, *)
(* mod 256; otherwise the reply is the error '*', the transceiver is never *)
(* switched to transmit and no closing pulse is stored.                    *)
(***************************************************************************)
C7_ChecksumGate ==
    (Closing /\ Starred(cmd.line)) =>
        IF Claimed(cmd.line) = Accumulated(cmd.line)
        THEN /\ cmd.err = 0 /\ cmd.state = 1
             /\ LineSent /\ LastLine = Str(<< "*", "O", "K" >>)
             /\ msg_end = Byte(bcount + 1)
             /\ pulse[bcount] = << MAX_TICKS_PER_PHASE, 0 >>
        ELSE /\ cmd.err = Ord("*")
             /\ LineSent /\ LastLine = << Ord("!") >> \o FmtD(Ord("*"))
             /\ ~Transmitted
             /\ pulse[bcount] # << MAX_TICKS_PER_PHASE, 0 >>

\* the self-test message with the wrong bit count has been turned down
C7_Witness == Closing /\ cmd.line = SelfTestWrong /\ cmd.err = Ord("*")

(***************************************************************************)
(* C8: an accepted message command has msg_end = (bit_count + 1) mod 256;  *)
(* when msg_end > 16 the transceiver goes three times through              *)
(* StartTransmit, Transmitting, Idle and then to Receiving, and when       *)
(* msg_end <= 16 it is never switched to transmit.                         *)
(***************************************************************************)
C8_ThreeCycles ==
    (Closing /\ Starred(cmd.line) /\ cmd.err = 0 /\ cmd.state = 1) =>
        /\ msg_end = Byte(bcount + 1)
        /\ mode_log = IF msg_end > 16 THEN ThreeCycles ELSE << "Idle", "Receiving" >>

\* a message of 17 pulses and its closing pulse has been sent
C8_Witness == Closing /\ cmd.line = Sound(17) /\ msg_end = 18 /\ Transmitted

(***************************************************************************)
(* C9, as stated: an accepted command with bit count 0x10 is answered *OK  *)
(* and the transceiver is never switched to transmit.                      *)
(***************************************************************************)
C9_SixteenNotSent ==
    (Closing /\ Starred(cmd.line) /\ cmd.err = 0 /\ cmd.state = 1 /\ bcount = 16) =>
        LastLine = Str(<< "*", "O", "K" >>) /\ ~Transmitted

(***************************************************************************)
(* C9, amended: an accepted command is answered *OK; with a bit count of   *)
(* at most 0x0f the transceiver is never switched to transmit, with bit    *)
(* count 0x10 (msg_end 17) the message is transmitted.                     *)
(***************************************************************************)
C9_FifteenNotSent ==
    (Closing /\ Starred(cmd.line) /\ cmd.err = 0 /\ cmd.state = 1) =>
        /\ LastLine = Str(<< "*", "O", "K" >>)
        /\ bcount <= 15 => ~Transmitted
        /\ bcount = 16 => Transmitted

\* the command with bit count 0x0f has been answered
C9_Witness == Closing /\ cmd.line = Sound(15) /\ bcount = 15 /\ cmd.state = 1

(***************************************************************************)
(* C10: a command whose first byte has been read, and that the host never  *)
(* completes, is given up: running_state returns to SyncSearch.            *)
(***************************************************************************)
C10_GivesUp == (running_state = "ReceivingCommand" /\ cmd.line # << >>) ~> (running_state = "SyncSearch")


(***************************************************************************)
(* The arithmetic helpers applied on their own, to every pair of 8-bit     *)
(* arguments.  Nothing else of the program moves.                          *)
(***************************************************************************)
Uint8 == 0 .. 255

Machine == << running_state, hwvars, ringvars, decvars, iovars, schedvars, taskvars, wave, host, echo, waited, irqs, sent >>

call_ovf_sub ==
    /\ calc = NoCalc
    /\ \E v1 \in Uint8, v2 \in Uint8 :
           calc' = [ fn |-> "ovf_sub", v1 |-> v1, v2 |-> v2, val |-> ovf_sub(v1, v2) ]
    /\ UNCHANGED Machine

InitSub == Boot(Quiet(<< >>))

NextSub == call_ovf_sub

SpecSub == InitSub /\ [][NextSub]_vars

\* C20: for all 8-bit a and b, ovf_sub(a, b) is (b - a) mod 256
C20_ModularDifference ==
    calc.fn = "ovf_sub" => calc.val = (calc.v2 - calc.v1) % 256

(***************************************************************************)
(* OOK messages: cycles of two equal phases of 70 ticks pass the sync      *)
(* search with syncduration 140 and the lock-in on syncduration / 2, and   *)
(* no phase is near syncduration, so no bit is stuffed.                    *)
(***************************************************************************)
SilentOok == Rep(22, Cycle(70, 70)) \o Ending(70)

OokScenarios == { [ wave |-> SilentOok \o SilentOok, host |-> << >>, preload |-> << >> ] }

InitOok == \E sc \in OokScenarios : Boot(sc)

NextOok ==
    \/ enable_receiver
    \/ TIMER0_COMPA
    \/ rf_bridge_run
    \/ cr_syncsearch
    \/ cr_decode_ook

SpecOok == InitOok /\ [][NextOok]_vars

\* a header of a decoded message starts at out[i]
HeaderAt(i) ==
    /\ i + 2 <= Len(out)
    /\ out[i] = Ord("M")
    /\ out[i + 1] \in { Ord("A"), Ord("O"), Ord("M"), Ord("P") }
    /\ out[i + 2] = Ord(":")

\* the trailer "#..!..*..\n" of a line lies between out[i] and out[j]
TrailerBetween(i, j) ==
    \E n \in i .. j :
        /\ out[n] = NL
        /\ \E s \in i .. n :
               /\ out[s] = Ord("*")
               /\ \E e \in i .. s :
                      /\ out[e] = Ord("!")
                      /\ \E h \in i .. e : out[h] = Ord("#")

\* C11: a message that was started is completed as one line: between the
\* header of a message and the header of the next the firmware sends the
\* trailer and a newline
C11_OneLinePerMessage ==
    \A i \in DOMAIN out, j \in DOMAIN out :
        (i < j /\ HeaderAt(i) /\ HeaderAt(j)) => TrailerBetween(i, j)

(***************************************************************************)
(* Pulse trains that pass the sync search and then stop being valid, or    *)
(* that change shape after the window.  A phase has to be longer than 20   *)
(* ticks somewhere in a cycle, or the sampler drops the cycle as tiny.     *)
(***************************************************************************)
\* 15 ASK cycles of 36 ticks, then cycles of 110
AskThenNoise == Rep(15, Cycle(27, 9)) \o Rep(2, Cycle(60, 50))

\* a window of 72 ticks with two even cycles in it (manchester is 2), then cycles of 200
MixedThenNoise == Rep(2, Cycle(36, 36)) \o Rep(8, Cycle(54, 18)) \o Rep(2, Cycle(100, 100))

\* the same window, a cycle of 108 ticks that ASK rejects and Manchester
\* accepts, and even cycles up to the closing pulse
MixedThenEven ==
    Rep(2, Cycle(36, 36)) \o Rep(7, Cycle(54, 18)) \o Cycle(36, 72) \o Rep(26, Cycle(36, 36)) \o Ending(36)

\* 10 even cycles of 60 ticks (manchester is 8), then cycles of 200
EvenThenNoise == Rep(10, Cycle(30, 30)) \o Rep(2, Cycle(100, 100))

\* 10 cycles of 140 ticks, then cycles of 50
LongThenNoise == Rep(10, Cycle(70, 70)) \o Rep(2, Cycle(25, 25))

\* a transmitter that gets up to speed: cycles of 40, 48, 52 and then 56 ticks
Sluggish == Cycle(30, 10) \o Cycle(36, 12) \o Cycle(39, 13) \o Rep(8, Cycle(42, 14))

OnPin(w) == [ wave |-> w, host |-> << >>, preload |-> << >> ]

LockScenarios ==
    { OnPin(AskThenNoise), OnPin(MixedThenNoise), OnPin(MixedThenEven), OnPin(EvenThenNoise),
      OnPin(LongThenNoise), OnPin(Sluggish) }

InitLock == \E sc \in LockScenarios : Boot(sc)

NextLock ==
    \/ enable_receiver
    \/ TIMER0_COMPA
    \/ rf_bridge_run
    \/ cr_syncsearch
    \/ cr_decode_ask
    \/ cr_decode_ook
    \/ cr_decode_manchester

SpecLock == InitLock /\ [][NextLock]_vars

\* the decoders that start with a lock-in, and the pulses each one asks for
LockInStates == { "Decoding_ASK", "Decoding_OOK", "Decoding_Manchester" }

LockInLength(state) == IF state = "Decoding_Manchester" THEN 32 ELSE 20

\* the step with which a decoder hands the pulse train back
GivesUp == running_state \in LockInStates /\ running_state' = "SyncSearch"

\* C12: a decoder that fails its lock-in (fewer than 20 valid pulses for ASK
\* and OOK, fewer than 32 for Manchester) sends nothing, leaves decoded at 0
\* and sets running_state back to SyncSearch: no step of a decoder that has
\* not committed changes the output, and a decoder goes back to SyncSearch
\* only with decoded 0 and a lock-in that fell short
C12_SilentFailure ==
    [][ /\ (running_state \in LockInStates /\ decoded' = 0) => out' = out
        /\ GivesUp => (decoded' = 0 /\ dec'.pcount < LockInLength(running_state)) ]_vars

\* a decoder has just given the pulse train back to the sync search
C12_Witness ==
    /\ running_state = "SyncSearch"
    /\ ss.pc = "handed"
    /\ ss.newstate \in LockInStates
    /\ decoded = 0
    /\ dec.pcount < LockInLength(ss.newstate)
    /\ out = Banner

\* C13: a decoder that fails its lock-in leaves msg_start past the start of
\* the window it was given (syncstart), so the sync search, which goes on
\* from msg_start, does not find the same window again
C13_PastTheWindow ==
    [][ GivesUp => msg_start' # ss.syncstart ]_vars

\* the step that sends the header of a message of the given type
HeaderSent(type) == out' = out \o << Ord("M"), Ord(type), Ord(":") >>

\* the sync search, back from a decoder, hands the window over once more
Retries == ss.pc = "handed" /\ running_state = "SyncSearch" /\ running_state' # "SyncSearch"

\* the sync search, back from a decoder, goes on with the search
Releases == ss.pc = "handed" /\ running_state = "SyncSearch" /\ ss'.pc = "wait"

\* C14: for one sync lock, a failed ASK attempt with manchester > 0 is followed
\* by one run of the Manchester decoder on the same window (msg_start is the
\* sync start again); nothing else is retried, and the lock sends at most one
\* header, MM: after a retry.  A header goes with decoded rising from 0 to 1,
\* and decoded is cleared after that only by the hand-over of a new lock.
C14_ManchesterFallback ==
    [][ /\ Retries => /\ ss.newstate = "Decoding_ASK" /\ decoded = 0 /\ ss.manchester > 0
                      /\ running_state' = "Decoding_Manchester" /\ ss'.newstate = "Decoding_Manchester"
                      /\ msg_start' = ss.syncstart
        /\ (ss.pc = "handed" /\ ss' # ss /\ ss.newstate = "Decoding_ASK" /\ decoded = 0 /\ ss.manchester > 0)
               => Retries
        /\ (ss.pc = "handed" /\ ss' # ss /\ ss.newstate \in { "Decoding_Manchester", "Decoding_OOK" })
               => Releases
        /\ (\E type \in { "A", "O", "M", "P" } : HeaderSent(type)) => (decoded = 0 /\ decoded' = 1)
        /\ (decoded = 1 /\ decoded' = 0) => ss.pc # "handed"
        /\ (ss.pc = "handed" /\ ss.newstate = "Decoding_Manchester" /\ out' # out /\ decoded = 0)
               => HeaderSent("M") ]_vars

\* the Manchester decoder has decoded a window that the ASK decoder gave back
C14_Witness ==
    /\ ss.pc = "handed"
    /\ ss.newstate = "Decoding_Manchester"
    /\ ss.manchester \in 1 .. 4
    /\ running_state = "SyncSearch"
    /\ decoded = 1
    /\ \E i \in DOMAIN out : HeaderAt(i) /\ out[i + 1] = Ord("M") /\ TrailerBetween(i, Len(out))
    /\ \A i \in DOMAIN out, j \in DOMAIN out : HeaderAt(i) /\ HeaderAt(j) => i = j

(***************************************************************************)
(* Windows of each kind for the choice of the decoder: the pulse before    *)
(* the window is the one that starts it, 8 pulses are counted, and the     *)
(* pulse after them has to be complete for the walk to reach the eighth.   *)
(***************************************************************************)
\* ASK cycles of 0x50 ticks
UniformAsk == Rep(11, Cycle(60, 20)) \o Rep(2, Cycle(100, 100))

\* cycles of 72 ticks, k of the 8 counted ones even
EvenOfEight(k) == Cycle(54, 18) \o Rep(k, Cycle(36, 36)) \o Rep(10 - k, Cycle(54, 18)) \o Rep(2, Cycle(100, 100))

\* even cycles of 140 ticks up to a closing pulse, printed raw after PULSE
RawOok == Rep(9, Cycle(70, 70)) \o Ending(70)

ChoiceScenarios ==
    { OnPin(UniformAsk), OnPin(EvenOfEight(4)), OnPin(EvenOfEight(5)), OnPin(EvenThenNoise), OnPin(LongThenNoise),
      [ wave |-> RawOok, host |-> << Chunk(Len(RawOok), Keyword.P) >>, preload |-> << >> ] }

InitChoice == \E sc \in ChoiceScenarios : Boot(sc)

NextChoice ==
    \/ disable_transceiver
    \/ enable_receiver
    \/ TIMER0_COMPA
    \/ UART_RX
    \/ rf_bridge_run
    \/ cr_syncsearch
    \/ cr_decode_ask
    \/ cr_decode_ook
    \/ cr_decode_manchester
    \/ cr_decode_pulses
    \/ cr_receive_cmd

SpecChoice == InitChoice /\ [][NextChoice]_vars

\* the sync search hands a window over for the first time
Chooses == ss.pc = "walk_test" /\ ss'.pc = "handed"

\* the k-th pulse counted in the window, as it is in the ring
Counted(k) == pulse[Byte(ss.syncstart + k)]

\* a cycle short enough to be taken as it is, and an even one: |p1 - p0| < d / 8
TakenAsIs(p) == p[1] + p[2] <= 112

EvenCycle(p) == abs_sub(p[2], p[1]) < (p[1] + p[2]) \div 8

\* C15: when synclen reaches 8 the decoder is chosen by priority: raw pulses
\* if display_pulses is set, else OOK if syncduration > 0x80, else Manchester
\* if manchester > 4, else ASK.  So, with display_pulses clear: 8 uniform ASK
\* cycles of 0x50 ticks give ASK; 8 cycles of which at least 5 are even give
\* Manchester unless syncduration is above 0x80; syncduration above 0x80
\* gives OOK.
C15_ChoicePriority ==
    [][ Chooses =>
          /\ ss.synclen = SYNC_LEN
          /\ running_state' = CASE flags.display_pulses = 1 -> "DecodeRawPulses"
                                [] flags.display_pulses = 0 /\ syncduration > 128 -> "Decoding_OOK"
                                [] flags.display_pulses = 0 /\ syncduration <= 128 /\ ss.manchester > 4
                                     -> "Decoding_Manchester"
                                [] OTHER -> "Decoding_ASK"
          /\ ( /\ flags.display_pulses = 0
               /\ \A k \in 1 .. SYNC_LEN : Counted(k)[1] + Counted(k)[2] = 80 /\ ~EvenCycle(Counted(k)) )
                 => running_state' = "Decoding_ASK"
          /\ ( /\ flags.display_pulses = 0
               /\ syncduration <= 128
               /\ \A k \in 1 .. SYNC_LEN : TakenAsIs(Counted(k))
               /\ Cardinality({ k \in 1 .. SYNC_LEN : EvenCycle(Counted(k)) }) >= 5 )
                 => running_state' = "Decoding_Manchester"
          /\ (flags.display_pulses = 0 /\ syncduration > 128) => running_state' = "Decoding_OOK" ]_vars

\* OOK has been chosen for a window of 8 even cycles
C15_Witness ==
    /\ ss.pc = "handed"
    /\ running_state = "Decoding_OOK"
    /\ dec.pc = "idle"
    /\ ss.synclen = SYNC_LEN
    /\ ss.manchester = SYNC_LEN
    /\ syncduration > 128

(***************************************************************************)
(* ASK messages of several lengths: the first bits of 40 55 33 00 a5 0f as *)
(* cycles of 36 ticks, and a closing pulse whose low phase saturates.      *)
(***************************************************************************)
LongPayload == << 64, 85, 51, 0, 165, 15 >>

FirstBits(n) == [ k \in 1 .. n |-> BitOf(LongPayload, k - 1) ]

AskMessage(n) == AskTrain(FirstBits(n)) \o Ending(27)

MessageLengths == { 20, 23, 24, 47, 48 }

SatScenarios == { OnPin(AskMessage(n)) : n \in MessageLengths }

InitSat == \E sc \in SatScenarios : Boot(sc)

NextSat ==
    \/ enable_receiver
    \/ TIMER0_COMPA
    \/ rf_bridge_run
    \/ cr_syncsearch
    \/ cr_decode_ask

SpecSat == InitSat /\ [][NextSat]_vars

\* what has been sent since the last newline
OpenLine == SubSeq(out, LastIndex(out, NL) + 1, Len(out))

\* the ASK decoder has ended a message of the window that starts at syncstart
AskEnded == running_state = "DecodeDone" /\ ss.pc = "handed" /\ ss.newstate = "Decoding_ASK"

\* C16: the ASK decoder takes the pulses in ring order from msg_start, one
\* bit each, 1 if high is longer than low (p1 > p0) and 0 otherwise, and packs
\* them most significant bit first: bit k of the message is bit 7 - (k mod 8)
\* of payload byte k div 8
C16_BitPerPulse ==
    AskEnded =>
        LET bytes == PairBytes(SubSeq(OpenLine, 4, Len(OpenLine)))
        IN  /\ SubSeq(OpenLine, 1, 3) = << Ord("M"), Ord("A"), Ord(":") >>
            /\ Len(OpenLine) = 3 + 2 * Len(bytes)
            /\ Len(bytes) = (bcount + 7) \div 8
            /\ msg_start = Byte(ss.syncstart + bcount)
            /\ \A k \in 0 .. bcount - 1 :
                   LET p == pulse[Byte(ss.syncstart + k)]
                   IN  (bytes[(k \div 8) + 1] \div Pow2(7 - (k % 8))) % 2 = (IF p[2] > p[1] THEN 1 ELSE 0)

\* a message with 1 bits and 0 bits in more than two payload bytes has ended
C16_Witness ==
    /\ AskEnded
    /\ bcount > 16
    /\ \E k \in 0 .. bcount - 1 : pulse[Byte(ss.syncstart + k)][2] > pulse[Byte(ss.syncstart + k)][1]
    /\ \E k \in 0 .. bcount - 1 : pulse[Byte(ss.syncstart + k)][2] <= pulse[Byte(ss.syncstart + k)][1]

\* the ASK decoder's line is out and the sync search still holds its window
AskLineSent ==
    /\ running_state = "SyncSearch" /\ ss.pc = "handed" /\ ss.newstate = "Decoding_ASK" /\ decoded = 1
    /\ LineSent /\ HasTrailer(LastLine)

\* the pulses from the start of the window up to the first saturated one
Unsaturated ==
    CHOOSE n \in 0 .. 255 :
        /\ \A m \in 0 .. n - 1 : Saturated(pulse[Byte(ss.syncstart + m)]) = 0
        /\ n < 255 => Saturated(pulse[Byte(ss.syncstart + n)]) = 1

\* the line carries n bits: the trailer says so and the payload has the bytes for them
Carries(n) ==
    /\ TrailerCount(LastLine) = n
    /\ Len(PayloadText(LastLine)) = 2 * ((n + 7) \div 8)

\* C17 as stated: N locked-in ASK pulses followed by a pulse with p0 = 255
\* give a line of exactly N bits, ceil(N/8) payload bytes and bit count N
C17_ExactlyN == AskLineSent => Carries(Unsaturated)

\* C17: N locked-in ASK pulses (N < 255) followed by a pulse with
\* p0 = 255 give a line of exactly N + 1 bits, the saturated pulse being the
\* last bit: ceil((N+1)/8) payload bytes and bit count N + 1
C17_OneMore ==
    AskLineSent =>
        /\ Carries(Unsaturated + 1)
        /\ BitOf(PairBytes(PayloadText(LastLine)), Unsaturated) = 0

\* 48 pulses and the saturated one have given 7 payload bytes and the trailer
C17_Witness ==
    /\ AskLineSent
    /\ Unsaturated = 48
    /\ Len(PayloadText(LastLine)) = 14
    /\ TrailerCount(LastLine) = 49

(***************************************************************************)
(* Lines the parser rejects, one of each kind, and two it accepts, sent on *)
(* a silent receiver.                                                      *)
(***************************************************************************)
Rejected ==
    { Str(<< "X", "\n" >>),                                 \* unknown first byte
      Str(<< "M", "X", "\n" >>),                            \* unknown type
      Str(<< "M", "A", "?", "\n" >>),                       \* unexpected token
      Str(<< "M", "A", "!", "3", "g", "\n" >>),             \* not a hexadecimal digit in a value
      Unsound(15),                                          \* checksum mismatch
      Str(<< "P", "U", "L", "S", "X", "\n" >>) }            \* keyword misspelt

Accepted == { Keyword.P, Keyword.D, Sound(15) }

RejScenarios == { Quiet(l) : l \in Rejected \cup Accepted }

InitRej == \E sc \in RejScenarios : Boot(sc)

NextRej ==
    \/ disable_transceiver
    \/ enable_receiver
    \/ TIMER0_COMPA
    \/ UART_RX
    \/ rf_bridge_run
    \/ cr_syncsearch
    \/ cr_receive_cmd

SpecRej == InitRej /\ [][NextRej]_vars

\* what the firmware has sent after the banner
Replies == SubSeq(out, Len(Banner) + 1, Len(out))

\* C18: a line the parser has consumed is answered by exactly one reply:
\* '!', the offending byte and a newline if the line is rejected ("!*" for a
\* checksum mismatch), "*OK" and a newline if it is accepted
C18_OneReply ==
    (Closing /\ cmd.line # << >>) =>
        IF cmd.line \in Accepted
        THEN Replies = Str(<< "*", "O", "K", "\n" >>)
        ELSE /\ Len(Replies) = 3
             /\ Replies[1] = Ord("!")
             /\ \E i \in DOMAIN cmd.line : Replies[2] = cmd.line[i]
             /\ Replies[3] = NL
             /\ cmd.line = Unsound(15) => Replies[2] = Ord("*")

(***************************************************************************)
(* Type 'P' commands: n pulses of 27 ticks high and 9 ticks low, written   *)
(* as the firmware prints raw pulses, high phase first.                    *)
(***************************************************************************)
RawPairs(n) == IF n = 0 THEN << >> ELSE Rep(n, << 27, 9 >>)

RawLine(n) == CommandLine("P", 36, RawPairs(n), n, LineSum(36, RawPairs(n), n))

PulseScenarios == { Quiet(RawLine(2)), Quiet(RawLine(17)) }

InitPulse == \E sc \in PulseScenarios : Boot(sc)

NextPulse ==
    \/ disable_transceiver
    \/ enable_receiver
    \/ enable_transmitter
    \/ TIMER0_COMPA
    \/ TIMER0_COMPB
    \/ UART_RX
    \/ rf_bridge_run
    \/ cr_syncsearch
    \/ cr_receive_cmd

SpecPulse == InitPulse /\ [][NextPulse]_vars

\* the bytes of the ':' payload of a command line
GivenBytes(l) == PairBytes(SubSeq(l, FirstIndex(l, Ord(":")) + 1, FirstIndex(l, Ord("#")) - 1))

\* C19: an accepted type 'P' command has stored its ':' payload in the ring
\* from slot 0 on, two bytes per pulse (the high and the low phase), so the
\* slots the transmit driver replays hold the pulses of the command
C19_RawStored ==
    (Closing /\ cmd.state = 1 /\ Len(cmd.line) > 2 /\ cmd.line[2] = Ord("P")) =>
        LET given == GivenBytes(cmd.line)
        IN  \A k \in 0 .. (Len(given) \div 2) - 1 :
                \/ pulse[k] = << given[2 * k + 2], given[2 * k + 1] >>
                \/ pulse[k] = << given[2 * k + 1], given[2 * k + 2] >>

(***************************************************************************)
(* The transmit driver's replay                                           *)
(***************************************************************************)
\* "MA!03:000000#18*..": 24 pulses whose high phase is syncduration / 4 = 0
ZeroHigh == CommandLine("A", 3, << 0, 0, 0 >>, 24, LineSum(3, << 0, 0, 0 >>, 24))

\* "MA!03:ffffff#18*..": 24 pulses whose low phase is 0
ZeroLow == CommandLine("A", 3, << 255, 255, 255 >>, 24, LineSum(3, << 255, 255, 255 >>, 24))

TxScenarios ==
    { Quiet(Sound(17)), Quiet(ZeroHigh), Quiet(ZeroLow), [ wave |-> << >>, host |-> << >>, preload |-> SelfTest ] }

InitTx == \E sc \in TxScenarios : Boot(sc)

NextTx ==
    \/ disable_transceiver
    \/ enable_receiver
    \/ enable_transmitter
    \/ TIMER0_COMPA
    \/ TIMER0_COMPB
    \/ UART_RX
    \/ rf_bridge_run
    \/ cr_syncsearch
    \/ cr_receive_cmd

SpecTx == InitTx /\ [][NextTx]_vars

\* the slots of the message: msg_start, msg_start + 1, ..., msg_end - 1
MessageSlots == { Byte(msg_start + k) : k \in 0 .. (Byte(msg_end - msg_start) - 1) }

\* what the driver has put on the pin while it was at slot i
SlotLog(i) == SelectSeq(sent, LAMBDA e : e.slot = i)

\* the driver has gone through the slots of the message one after the other
InOrder ==
    /\ sent # << >>
    /\ sent[1].slot = msg_start
    /\ sent[Len(sent)].slot = Byte(msg_end - 1)
    /\ \A k \in 1 .. (Len(sent) - 1) : sent[k + 1].slot \in { sent[k].slot, Byte(sent[k].slot + 1) }

\* high for exactly the high phase, then low for exactly the low phase
Exact(i) ==
    SlotLog(i) = << [ slot |-> i, level |-> 1, ticks |-> pulse[i][2] ], [ slot |-> i, level |-> 0, ticks |-> pulse[i][1] ] >>

\* the pin has not been high at slot i
Skipped(i) == \A k \in 1 .. Len(sent) : sent[k].slot = i => sent[k].level = 0

\* the driver ends the replay: no task stores mode_Idle over mode_Transmitting
ReplayEnds == transceiver_mode = "Transmitting" /\ transceiver_mode' = "Idle"

\* C21 as stated: when the driver sets the mode to Idle the pin is low, and
\* it has played the slots msg_start .. msg_end - 1 in order, each slot with
\* two non-zero phases high for exactly its high phase and then low for
\* exactly its low phase, and the pin never high at a slot whose high phase is 0
C21_ZeroHighSkipped ==
    [][ ReplayEnds =>
          /\ pins'.Transmitter = 0
          /\ InOrder'
          /\ \A i \in MessageSlots :
                /\ (pulse[i][1] # 0 /\ pulse[i][2] # 0) => Exact(i)'
                /\ pulse[i][2] = 0 => Skipped(i)' ]_vars

\* C21, amended: the same, but a zero high phase is skipped only behind the
\* first slot: at slot msg_start the pin is high for one tick when the high
\* phase is 0
C21_Replay ==
    [][ ReplayEnds =>
          /\ pins'.Transmitter = 0
          /\ InOrder'
          /\ \A i \in MessageSlots :
                /\ (pulse[i][1] # 0 /\ pulse[i][2] # 0) => Exact(i)'
                /\ (pulse[i][2] = 0 /\ i # msg_start) => Skipped(i)'
                /\ (pulse[i][2] = 0 /\ i = msg_start) =>
                      /\ sent'[1] = [ slot |-> i, level |-> 1, ticks |-> 1 ]
                      /\ \A k \in 2 .. Len(sent') : sent'[k].slot = i => sent'[k].level = 0 ]_vars

\* a replay has ended that began at a slot with a zero high phase, went
\* through slots with two non-zero phases or skipped a high phase behind
C21_Witness ==
    /\ transceiver_mode = "Idle"
    /\ "OCIE0B" \in TIMSK0
    /\ InOrder
    /\ pulse[msg_start][2] = 0
    /\ \E i \in MessageSlots : i # msg_start /\ pulse[i][2] = 0 /\ Skipped(i)

(***************************************************************************)
(* The sampler's counters                                                  *)
(***************************************************************************)
\* the sampler sees a rising edge on the first tick of the phase to come
RisingEdge == isr.rx_bit = 0 /\ PinPhase[1] = 1

\* a counter after n more ticks, when it stops at top
CountedUpTo(c, n, top) == IF c + n < top THEN c + n ELSE top

\* C22 as stated: counting ticks never raises a phase counter above 254
C22_SaturatesAt254 ==
    [][ TIMER0_COMPA =>
          \A i \in 0 .. 255, b \in 1 .. 2 : pulse'[i][b] # pulse[i][b] => pulse'[i][b] <= 254 ]_vars

\* C22, amended: the counter of the phase the pin is in goes up by one per
\* tick and stays at 255 once it is there: it is never above 255 and never
\* wraps; at a rising edge the first tick goes to the slot that ends and the
\* other ticks are counted from 0 in the slot that begins
C22_SaturatesAt255 ==
    [][ TIMER0_COMPA =>
          LET b == PinPhase[1] + 1
              n == PinPhase[2]
          IN  /\ \A i \in 0 .. 255, k \in 1 .. 2 : pulse'[i][k] <= MAX_TICKS_PER_PHASE
              /\ ~RisingEdge =>
                    /\ current_pulse' = current_pulse
                    /\ pulse'[current_pulse][b] = CountedUpTo(pulse[current_pulse][b], n, 255)
              /\ RisingEdge =>
                    pulse'[current_pulse'][b] = CountedUpTo(0, n - 1, 255) ]_vars

\* the sampler has counted a low phase up to 255 and the pin stays low
C22_Witness ==
    /\ "OCIE0A" \in TIMSK0
    /\ transceiver_mode = "Receiving"
    /\ wave = << >>
    /\ isr.rx_bit = 0
    /\ current_pulse # 0
    /\ pulse[current_pulse][1] = 255

(***************************************************************************)
(* The sampler's spike filter                                              *)
(***************************************************************************)
\* spikes before, inside and behind an ASK message; a cycle of 20 and 20
\* ticks is the longest that is dropped
SpikesAround ==
    Rep(2, Cycle(5, 5)) \o AskTrain(FirstBits(12)) \o Cycle(20, 20) \o Cycle(3, 4) \o AskTrain(FirstBits(12))
        \o Cycle(2, 2) \o Ending(27)

\* cycles at the edge of the filter: 21 ticks in one phase are enough
EdgeOfFilter ==
    Cycle(20, 20) \o Cycle(21, 20) \o Cycle(20, 20) \o Cycle(20, 21) \o Cycle(1, 20) \o Cycle(20, 1) \o Cycle(21, 1)
        \o Cycle(1, 21) \o Ending(27)

SpikesOnly == Rep(6, Cycle(4, 7)) \o Ending(3)

SpikeScenarios == { OnPin(SpikesAround), OnPin(EdgeOfFilter), OnPin(SpikesOnly) }

InitSpike == \E sc \in SpikeScenarios : Boot(sc)

NextSpike ==
    \/ enable_receiver
    \/ TIMER0_COMPA
    \/ rf_bridge_run
    \/ cr_syncsearch
    \/ cr_decode_ask

SpecSpike == InitSpike /\ [][NextSpike]_vars

\* the slot that ends at a rising edge, as it is in the ring when the
\* filter looks at it: the tick that shows the edge has been counted
Finished == [pulse[current_pulse] EXCEPT ![2] = CountedUpTo(@, 1, 255)]

\* the slots behind the filling cursor, which has not been reset nor gone round
Committed == 0 .. (current_pulse - 1)

\* C23: at a rising edge the sampler advances current_pulse by one if and
\* only if the slot that ends has a low or a high phase above 20, and the
\* slot it then fills starts from (0, 0); every slot behind current_pulse
\* has a phase above 20
C23_SpikeFilter ==
    /\ [][ (TIMER0_COMPA /\ RisingEdge) =>
             /\ (Finished[1] > 20 \/ Finished[2] > 20) => current_pulse' = Byte(current_pulse + 1)
             /\ ~(Finished[1] > 20 \/ Finished[2] > 20) => current_pulse' = current_pulse
             /\ pulse'[current_pulse'] = << 0, CountedUpTo(0, PinPhase[2] - 1, 255) >>
             /\ current_pulse' # current_pulse => pulse'[current_pulse] = Finished ]_vars
    /\ [](transceiver_mode = "Receiving" => \A i \in Committed : pulse[i][1] > 20 \/ pulse[i][2] > 20)
    /\ [][ ~(TIMER0_COMPA /\ RisingEdge) => current_pulse' = current_pulse ]_vars

\* the wave with spikes around an ASK message is over: of its 30 cycles the
\* 24 pulses of the message and the closing pulse are behind the cursor, the
\* five spikes are not
C23_Witness ==
    /\ wave = << >>
    /\ transceiver_mode = "Receiving"
    /\ current_pulse = 25
    /\ pulse[0] = << 27, 9 >>
    /\ pulse[12] = << 27, 9 >>
    /\ pulse[24] = << 255, 27 >>

(***************************************************************************)
(* The edges of running_state                                              *)
(***************************************************************************)
\* an ASK message, and DEMOD from the host while it is decoded
AskAndCommand == [ wave |-> AskMessage(20), host |-> << Chunk(14, Keyword.D) >>, preload |-> << >> ]

EdgeScenarios ==
    ChoiceScenarios \cup { OnPin(AskThenNoise), OnPin(MixedThenNoise), OnPin(MixedThenEven), OnPin(AskMessage(20)),
                           AskAndCommand }

InitEdge == \E sc \in EdgeScenarios : Boot(sc)

NextEdge ==
    \/ disable_transceiver
    \/ enable_receiver
    \/ TIMER0_COMPA
    \/ UART_RX
    \/ rf_bridge_run
    \/ cr_syncsearch
    \/ cr_decode_ask
    \/ cr_decode_ook
    \/ cr_decode_manchester
    \/ cr_decode_pulses
    \/ cr_receive_cmd

SpecEdge == InitEdge /\ [][NextEdge]_vars

\* rf_bridge_run is at its switch and goes through it
Dispatches == run = "main" /\ mpc = "switch" /\ mpc' # "switch"

\* C24: running_state changes only from SyncSearch to a decoder state with
\* synclen 8, from SyncSearch to ReceivingCommand with synclen 0 and a byte
\* in the receive buffer, from a decoder state to SyncSearch with nothing
\* decoded or to DecodeDone, from DecodeDone to SyncSearch, which the first
\* pass of the dispatch loop does, and from ReceivingCommand to SyncSearch
C24_Edges ==
    /\ [][ running_state' # running_state =>
             \/ /\ running_state = "SyncSearch"
                /\ running_state' \in DecoderStates
                /\ ss.synclen = SYNC_LEN
             \/ /\ running_state = "SyncSearch"
                /\ running_state' = "ReceivingCommand"
                /\ ss.synclen = 0
                /\ uart_rx # << >>
             \/ /\ running_state \in DecoderStates
                /\ running_state' = "SyncSearch"
                /\ decoded' = 0
                /\ dec.pcount < LockInLength(running_state)
             \/ /\ running_state \in DecoderStates
                /\ running_state' = "DecodeDone"
             \/ /\ running_state = "DecodeDone"
                /\ running_state' = "SyncSearch"
             \/ /\ running_state = "ReceivingCommand"
                /\ running_state' = "SyncSearch" ]_vars
    /\ [][ (running_state = "DecodeDone" /\ Dispatches) => running_state' = "SyncSearch" ]_vars

\* the Manchester decoder runs on a window with 1 to 4 even cycles: the ASK
\* decoder has had it and has given it back to the sync search
C24_Witness ==
    /\ running_state = "Decoding_Manchester"
    /\ run = "decoder"
    /\ ss.synclen = SYNC_LEN
    /\ ss.manchester \in 1 .. 4

(***************************************************************************)
(* The Manchester decoder on a train that does not end                     *)
(***************************************************************************)
\* the cycles of two full clocks in the train
TrainCycles == 103

\* 10 even cycles of 72 ticks, then cycles of two full clocks each, two bits
\* a cycle, with no silence behind
EndlessTrain == Rep(10, Cycle(36, 36)) \o Rep(TrainCycles, Cycle(72, 72))

\* even cycles up to a closing pulse
EvenToTheEnd == Rep(40, Cycle(36, 36)) \o Ending(36)

ManScenarios == { OnPin(EndlessTrain), OnPin(EvenToTheEnd) }

InitMan == \E sc \in ManScenarios : Boot(sc)

NextMan ==
    \/ enable_receiver
    \/ TIMER0_COMPA
    \/ rf_bridge_run
    \/ cr_syncsearch
    \/ cr_decode_manchester

\* the CPU runs the code that is ready and the enabled timer ticks
SpecMan ==
    /\ InitMan
    /\ [][NextMan]_vars
    /\ WF_vars(enable_receiver)
    /\ WF_vars(TIMER0_COMPA)
    /\ WF_vars(rf_bridge_run)
    /\ WF_vars(cr_syncsearch)
    /\ WF_vars(cr_decode_manchester)

\* the Manchester decoder has sent its header and decodes
ManLocked == running_state = "Decoding_Manchester" /\ decoded = 1

\* the pulses the decoder has gone through since the beginning of the message
Consumed == Byte(dec.pi - msg_start)

\* C25: a Manchester decoder that has locked in reaches DecodeDone, at a
\* pulse whose low phase is 255 or with a bit count of 0xd0 or more, and
\* until then it has counted at least one bit for every pulse it has gone through
C25_OverrunGuard ==
    /\ ManLocked ~> (running_state = "DecodeDone" /\ (msg_end = 1 \/ bcount >= 208))
    /\ [](ManLocked => bcount >= Consumed)

\* the decoder has ended on its bit count, with pulses still coming
C25_Witness ==
    /\ running_state = "DecodeDone"
    /\ flags.display_pulses = 0
    /\ syncduration < 128
    /\ msg_end = 0
    /\ bcount >= 208
    /\ wave # << >>

(***************************************************************************)
(* The mode the timer handlers run in                                      *)
(***************************************************************************)
\* the transmit driver never runs while the mode is Receiving
DriverOffAir == [][ TIMER0_COMPB => transceiver_mode # "Receiving" ]_vars

\* C26: the sampler runs only while transceiver_mode is Receiving and the
\* transmit driver never runs while it is Receiving, with the handlers taken
\* between any two statements of the tasks
C26_ConsistentPair ==
    /\ [][ TIMER0_COMPA => transceiver_mode = "Receiving" ]_vars
    /\ DriverOffAir

(***************************************************************************)
(* What the tasks read after a command                                     *)
(***************************************************************************)
\* two pulses that do not match, then the self-test line from the host on a
\* receiver that stays silent: the sync search stands at slot 2 with
\* syncstart 1 when the command loads slots 0 to 25
GhostScenarios ==
    { [ wave |-> Cycle(27, 9) \o Cycle(40, 20) \o Cycle(27, 9), host |-> << Chunk(0, SelfTest) >>, preload |-> << >> ] }

InitGhost == \E sc \in GhostScenarios : Boot(sc)

NextGhost ==
    \/ disable_transceiver
    \/ enable_receiver
    \/ enable_transmitter
    \/ TIMER0_COMPA
    \/ TIMER0_COMPB
    \/ UART_RX
    \/ rf_bridge_run
    \/ cr_syncsearch
    \/ cr_decode_ask
    \/ cr_receive_cmd

SpecGhost == InitGhost /\ [][NextGhost]_vars

\* a command has been dealt with: the parser is back at its first yield
CommandOver == cmd.pc = "idle" /\ cmd.line # << >>

\* the sync search reads pulse[pi]
SyncReads == cr_syncsearch /\ ss.pc = "walk_read"

\* a decoder reads pulse[pi]
DecoderReads ==
    /\ cr_decode_ask \/ cr_decode_ook \/ cr_decode_manchester \/ cr_decode_pulses
    /\ dec.pc \in { "lock_read", "dec_read", "raw_chk" }

\* C27: once a command is over, the sync search and the decoders read only
\* slots the sampler has committed since the cursors were reset to 0, that
\* is slots behind current_pulse
C27_FreshSlots ==
    [][ CommandOver =>
          /\ SyncReads => ss.pi \in Committed
          /\ DecoderReads => dec.pi \in Committed ]_vars

(***************************************************************************)
(* The bits of a line and its payload bytes                                *)
(***************************************************************************)
\* l is a message line of a decoder that stuffs bits
BitLine(l) == HasTrailer(l) /\ l[2] \in { Ord("A"), Ord("O"), Ord("M") }

\* C28: a line of type A, O or M carries ceil(bit count / 8) payload bytes,
\* two hex digits each
C28_AllBitsSent ==
    (LineSent /\ BitLine(LastLine)) =>
        Len(PayloadText(LastLine)) = 2 * ((TrailerCount(LastLine) + 7) \div 8)

(***************************************************************************)
(* Keyword lines                                                           *)
(***************************************************************************)
\* PULSE and DEMOD in full, cut short and misspelt; a line that is cut short
\* ends in its newline
KeywordLines ==
    { Keyword.P, Keyword.P \o Keyword.D,
      Str(<< "P", "\n" >>), Str(<< "P", "U", "\n" >>), Str(<< "P", "U", "L", "S", "\n" >>),
      Keyword.P \o Str(<< "D", "\n" >>), Keyword.P \o Str(<< "D", "E", "M", "\n" >>),
      Str(<< "P", "U", "L", "S", "X", "\n" >>), Keyword.P \o Str(<< "D", "E", "N", "O", "D", "\n" >>) }

KeyScenarios == { Quiet(l) : l \in KeywordLines }

InitKey == \E sc \in KeyScenarios : Boot(sc)

NextKey ==
    \/ disable_transceiver
    \/ enable_receiver
    \/ TIMER0_COMPA
    \/ UART_RX
    \/ rf_bridge_run
    \/ cr_syncsearch
    \/ cr_receive_cmd

SpecKey == InitKey /\ [][NextKey]_vars

\* the parser sends "*OK\n"
SaysOk == out' = out \o Str(<< "*", "O", "K", "\n" >>)

\* C29: display_pulses is set only when the line read is PULSE\n and
\* cleared only when it is DEMOD\n, and a line that begins with P or D is
\* answered *OK only if it is one of the two
C29_ExactKeyword ==
    [][ /\ (flags'.display_pulses = 1 /\ flags.display_pulses = 0) => cmd'.line = Keyword.P
        /\ (flags'.display_pulses = 0 /\ flags.display_pulses = 1) => cmd'.line = Keyword.D
        /\ (SaysOk /\ cmd.line # << >> /\ cmd.line[1] \in { Ord("P"), Ord("D") }) =>
              cmd.line \in { Keyword.P, Keyword.D } ]_vars

(***************************************************************************)
(* getsbyte applied on its own, to every pair of characters the serial     *)
(* line can deliver (255 is what uart_recv gives on a timeout)             *)
(***************************************************************************)
\* getsbyte with s1 and s2 the characters uart_recv returns: ret is its
\* result, res what it leaves in *res
getsbyte(s1, s2) ==
    IF HexValue(s1) < 0 THEN [ ret |-> s1, res |-> 0 ]
    ELSE IF HexValue(s2) < 0 THEN [ ret |-> s2, res |-> Byte(HexValue(s1) * 16) ]
    ELSE [ ret |-> 0, res |-> Byte(HexValue(s1) * 16) + HexValue(s2) ]

call_getsbyte ==
    /\ calc = NoCalc
    /\ \E s1 \in Uint8, s2 \in Uint8 :
           calc' = [ fn |-> "getsbyte", s1 |-> s1, s2 |-> s2, val |-> getsbyte(s1, s2) ]
    /\ UNCHANGED Machine

InitHex == Boot(Quiet(<< >>))

NextHex == call_getsbyte

SpecHex == InitHex /\ [][NextHex]_vars

\* the hexadecimal digits in either case, and what they stand for
Digit(s) ==
    CASE s \in Ord("0") .. Ord("9") -> s - Ord("0")
      [] s \in Ord("a") .. Ord("f") -> s - Ord("a") + 10
      [] s \in Ord("A") .. Ord("F") -> s - Ord("A") + 10
      [] OTHER -> -1

\* C30: getsbyte returns 0 and the byte value for every pair of hexadecimal
\* digits in either case, and a non-zero value only when one of the two
\* characters is no hexadecimal digit
C30_EitherCase ==
    calc.fn = "getsbyte" =>
        /\ (Digit(calc.s1) >= 0 /\ Digit(calc.s2) >= 0) =>
              calc.val = [ ret |-> 0, res |-> 16 * Digit(calc.s1) + Digit(calc.s2) ]
        /\ calc.val.ret # 0 => (Digit(calc.s1) < 0 \/ Digit(calc.s2) < 0)

====
